---- MODULE Spec2Model ----
(***************************************************************************)
(* fast_matrix_market: the chunk formatters (formatters.hpp), the         *)
(* threaded read pipeline (read_body_threads) with the triplet handler of  *)
(* the Python bindings, and the bindings' read and write functions.        *)
(*                                                                         *)
(* Text is a sequence of one-character strings.  Iterators are 0-based     *)
(* offsets into the sequence they range over, so *it is arr[it + 1].       *)
(***************************************************************************)
EXTENDS Integers, Sequences, FiniteSets, TLC

VARIABLES
    \* ---- write side: one formatter being drained ----
    fmt,        \* the formatter object: kind, borrowed source, options, cursor
    emitted,    \* chunk producers returned by next_chunk, in emission order
    texts,      \* texts[i]: the strings producer i returned, one per invocation
    \* ---- read side: read_body_threads ----
    hdr,        \* matrix_market_header
    opts,       \* read_options
    src,        \* where the body came from (the written source, or "raw")
    body,       \* the bytes of the body, i.e. the stream after the header
    spos,       \* stream position (bytes consumed)
    sgood,      \* instream.good()
    pc,         \* position of the producer (main thread)
    seed_i,     \* loop counter of the seeding loop
    line_num,   \* line_num
    line_count_futures, \* FIFO of chunk ids whose line-count future is queued
    chunks,     \* every chunk read so far, in stream order
    tasks,      \* the pool's unfinished tasks in submission order
    arrays,     \* output arrays of triplet_numpy_parse_handler
    oob,        \* a handler write fell outside the output arrays
    result,     \* what read_body_threads returned
    \* ---- Python bindings: one call of a read or write function ----
    call,       \* the function called, its arguments and how it ended
    out         \* what has been written to the stream of the write_cursor

wvars == <<fmt, emitted, texts>>
rvars == <<hdr, opts, src, body, spos, sgood, pc, seed_i, line_num,
           line_count_futures, chunks, tasks, arrays, oob, result>>
bvars == <<call, out>>
vars == <<fmt, emitted, texts, hdr, opts, src, body, spos, sgood, pc, seed_i,
          line_num, line_count_futures, chunks, tasks, arrays, oob, result,
          call, out>>

(***************************************************************************)
(* Bounds of the model                                                     *)
(***************************************************************************)
MaxChunkValues == 3     \* write_options.chunk_size_values ranges over 1..MaxChunkValues
MaxRecords == 4         \* triplet sources hold 0..MaxRecords records
MaxCols == 3            \* CSC sources have 1..MaxCols columns
MaxColNnz == 2          \* each CSC column holds 0..MaxColNnz entries
MaxDim == 3             \* dense sources are 0..MaxDim by 0..MaxDim
MaxCalls == 2           \* a chunk producer is invoked at most MaxCalls times

(***************************************************************************)
(* Small helpers                                                           *)
(***************************************************************************)
Min(a, b) == IF a < b THEN a ELSE b

RECURSIVE Flatten(_)
Flatten(ss) == IF ss = <<>> THEN <<>> ELSE Head(ss) \o Flatten(Tail(ss))

RECURSIVE SumSeq(_)
SumSeq(s) == IF s = <<>> THEN 0 ELSE Head(s) + SumSeq(Tail(s))

Last(s) == s[Len(s)]

(***************************************************************************)
(* Text                                                                    *)
(***************************************************************************)
kSpace == " "
kNewline == "\n"
DigitChars == <<"0", "1", "2", "3", "4", "5", "6", "7", "8", "9">>

RECURSIVE Digits(_)
Digits(n) == IF n < 10 THEN <<DigitChars[n + 1]>>
             ELSE Digits(n \div 10) \o <<DigitChars[(n % 10) + 1]>>

\* int_to_string: decimal digits with a leading '-' for negatives
int_to_string(n) == IF n < 0 THEN <<"-">> \o Digits(0 - n) ELSE Digits(n)

\* value_to_string for an integer value type
value_to_string(v) == int_to_string(v)

\* column_to_str that adds 1 whatever is_value says
column_to_str_as_index(c, is_value) == int_to_string(c + 1)

\* column_to_str<T, is_value>
column_to_str(c, is_value) ==
    IF is_value THEN value_to_string(c) ELSE int_to_string(c + 1)

(***************************************************************************)
(* triplet_formatter                                                       *)
(***************************************************************************)
\* throw invalid_argument(what): the exception in place of the object
invalid_argument(what) == [kind |-> "invalid_argument", what |-> what]

\* a test that also turns down an empty value range
triplet_ranges_mismatch_strict(row_len, col_len, val_len) ==
    row_len /= col_len \/ row_len /= val_len

\* the test of the constructor, on the lengths end - begin of the ranges
triplet_ranges_mismatch(row_len, col_len, val_len) ==
    row_len /= col_len \/ (row_len /= val_len /\ val_len /= 0)

triplet_formatter(rows, cols, vals, civ, csv) ==
    IF triplet_ranges_mismatch(Len(rows), Len(cols), Len(vals))
    THEN invalid_argument("Row, column, and value ranges must have equal length.")
    ELSE [kind |-> "triplet", rows |-> rows, cols |-> cols, vals |-> vals,
          column_is_value |-> civ, chunk_size_values |-> csv,
          row_iter |-> 0, row_end |-> Len(rows), col_iter |-> 0,
          val_iter |-> 0, val_end |-> Len(vals)]

triplet_has_next(f) == f.row_iter /= f.row_end

\* the loop body with the newline left out
triplet_line_unterminated(f, c) ==
    int_to_string(f.rows[c.row_iter + 1] + 1) \o <<kSpace>>
        \o column_to_str(f.cols[c.col_iter + 1], f.column_is_value)
        \o (IF c.val_iter /= c.val_end
            THEN <<kSpace>> \o value_to_string(f.vals[c.val_iter + 1])
            ELSE <<>>)

\* one pass of the loop body of triplet_formatter::chunk::operator()
triplet_line(f, c) ==
    int_to_string(f.rows[c.row_iter + 1] + 1) \o <<kSpace>>
        \o column_to_str(f.cols[c.col_iter + 1], f.column_is_value)
        \o (IF c.val_iter /= c.val_end
            THEN <<kSpace>> \o value_to_string(f.vals[c.val_iter + 1])
            ELSE <<>>)
        \o <<kNewline>>

\* triplet_formatter::chunk::operator(): the text, and the producer afterwards
RECURSIVE triplet_chunk_call(_, _)
triplet_chunk_call(f, c) ==
    IF c.row_iter = c.row_end THEN [text |-> <<>>, chunk |-> c]
    ELSE LET rest == triplet_chunk_call(f,
                        [c EXCEPT !.row_iter = @ + 1, !.col_iter = @ + 1,
                                  !.val_iter = IF c.val_iter /= c.val_end
                                               THEN @ + 1 ELSE @])
         IN [text |-> triplet_line(f, c) \o rest.text, chunk |-> rest.chunk]

\* a chunk size that takes every remaining record
triplet_chunk_size_whole(f) == f.row_end - f.row_iter

\* a chunk size of a single record
triplet_chunk_size_single(f) == Min(1, f.row_end - f.row_iter)

triplet_chunk_size(f) == Min(f.chunk_size_values, f.row_end - f.row_iter)

\* next_chunk that forgets to advance the column cursor
triplet_next_chunk_stale_col(f) ==
    LET chunk_size == Min(f.chunk_size_values, f.row_end - f.row_iter)
        row_chunk_end == f.row_iter + chunk_size
        val_chunk_end == IF f.val_iter /= f.val_end
                         THEN f.val_iter + chunk_size ELSE f.val_end
    IN [chunk |-> [row_iter |-> f.row_iter, row_end |-> row_chunk_end,
                   col_iter |-> f.col_iter,
                   val_iter |-> f.val_iter, val_end |-> val_chunk_end],
        fmt |-> [f EXCEPT !.row_iter = row_chunk_end,
                          !.val_iter = val_chunk_end]]

\* triplet_formatter::next_chunk: the producer, and the formatter afterwards
triplet_next_chunk(f) ==
    LET chunk_size == triplet_chunk_size(f)
        row_chunk_end == f.row_iter + chunk_size
        col_chunk_end == f.col_iter + chunk_size
        val_chunk_end == IF f.val_iter /= f.val_end
                         THEN f.val_iter + chunk_size ELSE f.val_end
    IN [chunk |-> [row_iter |-> f.row_iter, row_end |-> row_chunk_end,
                   col_iter |-> f.col_iter,
                   val_iter |-> f.val_iter, val_end |-> val_chunk_end],
        fmt |-> [f EXCEPT !.row_iter = row_chunk_end,
                          !.col_iter = col_chunk_end,
                          !.val_iter = val_chunk_end]]

(***************************************************************************)
(* csc_formatter                                                           *)
(***************************************************************************)
\* nnz_per_column * chunk_size_values + 1, truncated to int64.  The double
\* product (nnz / num_columns) * chunk_size_values truncates to the same
\* integer as the exact quotient for all operands below 40.
csc_num_columns(nnz, num_columns, csv) == ((nnz * csv) \div num_columns) + 1

\* the test of the constructor, on the lengths end - begin of the ranges
csc_ranges_mismatch(ind_len, val_len) == ind_len /= val_len /\ val_len /= 0

csc_formatter(ptr, ptr_end, ind, vals, transpose, csv) ==
    IF csc_ranges_mismatch(Len(ind), Len(vals))
    THEN invalid_argument("Index and value ranges must have equal length.")
    ELSE [kind |-> "csc", ptr |-> ptr, ind |-> ind, vals |-> vals,
          transpose |-> transpose, chunk_size_values |-> csv,
          ptr_iter |-> 0, ptr_end |-> ptr_end,
          val_end |-> Len(vals), nnz |-> Len(ind), num_columns |-> ptr_end]

csc_has_next(f) == f.ptr_iter /= f.ptr_end

\* the inner loop of csc_formatter::chunk::operator(): the rows of one column
RECURSIVE csc_column_text(_, _, _, _, _)
csc_column_text(f, col, row_iter, row_end, val_iter) ==
    IF row_iter = row_end THEN <<>>
    ELSE LET row == int_to_string(f.ind[row_iter + 1] + 1)
             hasv == val_iter /= f.val_end
         IN (IF f.transpose THEN col \o <<kSpace>> \o row
                            ELSE row \o <<kSpace>> \o col)
            \o (IF hasv THEN <<kSpace>> \o value_to_string(f.vals[val_iter + 1])
                        ELSE <<>>)
            \o <<kNewline>>
            \o csc_column_text(f, col, row_iter + 1, row_end,
                               IF hasv THEN val_iter + 1 ELSE val_iter)

csc_column_number(ptr_iter) == ptr_iter    \* ptr_iter - ptr_begin

\* val_iter left at val_begin for every column
csc_val_start_at_begin(f, ptr_iter) == 0

csc_val_start(f, ptr_iter) ==
    IF 0 /= f.val_end THEN f.ptr[ptr_iter + 1] ELSE 0

\* csc_formatter::chunk::operator()
RECURSIVE csc_chunk_call(_, _)
csc_chunk_call(f, c) ==
    IF c.ptr_iter = c.ptr_end THEN [text |-> <<>>, chunk |-> c]
    ELSE LET col == int_to_string(csc_column_number(c.ptr_iter) + 1)
             row_end == f.ptr[c.ptr_iter + 2]
             row_iter == f.ptr[c.ptr_iter + 1]
             rest == csc_chunk_call(f, [c EXCEPT !.ptr_iter = @ + 1])
         IN [text |-> csc_column_text(f, col, row_iter, row_end,
                                      csc_val_start(f, c.ptr_iter))
                      \o rest.text,
             chunk |-> rest.chunk]

\* the positions of the index and value ranges the inner loop of
\* csc_formatter::chunk::operator() dereferences for one column
RECURSIVE csc_column_reads(_, _, _, _)
csc_column_reads(f, row_iter, row_end, val_iter) ==
    IF row_iter = row_end THEN [ind |-> {}, val |-> {}]
    ELSE LET hasv == val_iter /= f.val_end
             rest == csc_column_reads(f, row_iter + 1, row_end,
                                      IF hasv THEN val_iter + 1 ELSE val_iter)
         IN [ind |-> {row_iter} \cup rest.ind,
             val |-> (IF hasv THEN {val_iter} ELSE {}) \cup rest.val]

\* the positions csc_formatter::chunk::operator() dereferences: *ptr_iter
\* and *(ptr_iter+1) of every column, and the column's indices and values
RECURSIVE csc_chunk_reads(_, _)
csc_chunk_reads(f, c) ==
    IF c.ptr_iter = c.ptr_end THEN [ptr |-> {}, ind |-> {}, val |-> {}]
    ELSE LET col == csc_column_reads(f, f.ptr[c.ptr_iter + 1],
                                     f.ptr[c.ptr_iter + 2],
                                     csc_val_start(f, c.ptr_iter))
             rest == csc_chunk_reads(f, [c EXCEPT !.ptr_iter = @ + 1])
         IN [ptr |-> {c.ptr_iter, c.ptr_iter + 1} \cup rest.ptr,
             ind |-> col.ind \cup rest.ind,
             val |-> col.val \cup rest.val]

\* a next_chunk whose unit starts one column before the cursor
csc_next_chunk_overlapping(f) ==
    LET num_columns == Min(csc_num_columns(f.nnz, f.num_columns,
                                           f.chunk_size_values),
                           f.ptr_end - f.ptr_iter)
        ptr_chunk_end == f.ptr_iter + num_columns
    IN [chunk |-> [ptr_iter |-> IF f.ptr_iter > 0 THEN f.ptr_iter - 1 ELSE 0,
                   ptr_end |-> ptr_chunk_end],
        fmt |-> [f EXCEPT !.ptr_iter = ptr_chunk_end]]

csc_next_chunk(f) ==
    LET num_columns == Min(csc_num_columns(f.nnz, f.num_columns,
                                           f.chunk_size_values),
                           f.ptr_end - f.ptr_iter)
        ptr_chunk_end == f.ptr_iter + num_columns
    IN [chunk |-> [ptr_iter |-> f.ptr_iter, ptr_end |-> ptr_chunk_end],
        fmt |-> [f EXCEPT !.ptr_iter = ptr_chunk_end]]

(***************************************************************************)
(* array_formatter (formatters.hpp)                                        *)
(***************************************************************************)
array_formatter(values, order, nrows, ncols, csv) ==
    [kind |-> "array", values |-> values, order |-> order,
     nrows |-> nrows, ncols |-> ncols, chunk_size_values |-> csv,
     cur_col |-> 0]

array_has_next(f) == f.cur_col /= f.ncols

array_offset(order, nrows, ncols, row, cur_col) ==
    IF order = "row_major" THEN row * ncols + cur_col
                           ELSE cur_col * nrows + row

\* array_formatter::chunk::operator(); it changes no member of the chunk
RECURSIVE array_chunk_text(_, _, _)
array_chunk_text(f, c, row) ==
    IF ~(row < f.nrows) THEN <<>>
    ELSE value_to_string(f.values[array_offset(f.order, f.nrows, f.ncols,
                                               row, c.cur_col) + 1])
         \o <<kNewline>> \o array_chunk_text(f, c, row + 1)

\* a producer that looks up the formatter's column counter when it runs
array_chunk_call_live(f, c) ==
    [text |-> array_chunk_text(f, [cur_col |-> f.cur_col - 1], 0),
     chunk |-> c]

array_chunk_call(f, c) == [text |-> array_chunk_text(f, c, 0), chunk |-> c]

array_next_chunk(f) ==
    [chunk |-> [cur_col |-> f.cur_col],
     fmt |-> [f EXCEPT !.cur_col = @ + 1]]

(***************************************************************************)
(* dense_2d_call_formatter (formatters.hpp)                                *)
(***************************************************************************)
dense_2d_call_formatter(mat, nrows, ncols, csv) ==
    [kind |-> "dense2d", mat |-> mat, nrows |-> nrows, ncols |-> ncols,
     chunk_size_values |-> csv, col_iter |-> 0]

dense_2d_has_next(f) == f.col_iter < f.ncols

RECURSIVE dense_2d_column_text(_, _, _)
dense_2d_column_text(f, col, row) ==
    IF ~(row < f.nrows) THEN <<>>
    ELSE value_to_string(f.mat[<<row, col>>]) \o <<kNewline>>
         \o dense_2d_column_text(f, col, row + 1)

RECURSIVE dense_2d_chunk_call(_, _)
dense_2d_chunk_call(f, c) ==
    IF c.col_iter = c.col_end THEN [text |-> <<>>, chunk |-> c]
    ELSE LET rest == dense_2d_chunk_call(f, [c EXCEPT !.col_iter = @ + 1])
         IN [text |-> dense_2d_column_text(f, c.col_iter, 0) \o rest.text,
             chunk |-> rest.chunk]

\* (DIM)(nrows * (double)options.chunk_size_values + 1)
dense_2d_num_columns(nrows, csv) == nrows * csv + 1

dense_2d_next_chunk(f) ==
    LET num_columns == Min(dense_2d_num_columns(f.nrows, f.chunk_size_values),
                           f.ncols - f.col_iter)
        col_end == f.col_iter + num_columns
    IN [chunk |-> [col_iter |-> f.col_iter, col_end |-> col_end],
        fmt |-> [f EXCEPT !.col_iter = col_end]]

(***************************************************************************)
(* row_major_array_formatter (the older formatters.hpp)                    *)
(***************************************************************************)
row_major_array_formatter(values, nrows, csv) ==
    [kind |-> "rowmajor", values |-> values, nrows |-> nrows,
     ncols |-> Len(values) \div nrows, chunk_size_values |-> csv,
     cur_row |-> 0]

row_major_has_next(f) == f.cur_row /= f.nrows

row_major_index(ncols, cur_row, i) == (cur_row * ncols) + i

RECURSIVE row_major_chunk_text(_, _, _)
row_major_chunk_text(f, c, i) ==
    IF ~(i < f.ncols) THEN <<>>
    ELSE value_to_string(f.values[row_major_index(f.ncols, c.cur_row, i) + 1])
         \o <<kNewline>> \o row_major_chunk_text(f, c, i + 1)

row_major_chunk_call(f, c) ==
    [text |-> row_major_chunk_text(f, c, 0), chunk |-> c]

row_major_next_chunk(f) ==
    [chunk |-> [cur_row |-> f.cur_row],
     fmt |-> [f EXCEPT !.cur_row = @ + 1]]

(***************************************************************************)
(* Sources handed to the formatters                                        *)
(***************************************************************************)
\* record i (0-based) of the triplet sources; the matrix is 3 by 4
TripletRows == 3
TripletCols == 4
TripletRow(i) == i % TripletRows
TripletCol(i) == (2 * i + 1) % TripletCols
TripletVal(i) == 5 * i - 7

TripletSource(n, pattern) ==
    [rows |-> [i \in 1..n |-> TripletRow(i - 1)],
     cols |-> [i \in 1..n |-> TripletCol(i - 1)],
     vals |-> IF pattern THEN <<>> ELSE [i \in 1..n |-> TripletVal(i - 1)]]

\* entry k (0-based) of the CSC sources
CscInd(k) == (2 * k) % 5
CscVal(k) == 3 * k - 4

RECURSIVE PrefixSums(_, _)
PrefixSums(counts, acc) ==
    IF counts = <<>> THEN <<acc>>
    ELSE <<acc>> \o PrefixSums(Tail(counts), acc + Head(counts))

CscSource(counts, pattern) ==
    LET ptr == PrefixSums(counts, 0)
        nnz == Last(ptr)
    IN [ptr |-> ptr,
        ind |-> [k \in 1..nnz |-> CscInd(k - 1)],
        vals |-> IF pattern THEN <<>> ELSE [k \in 1..nnz |-> CscVal(k - 1)]]

\* element (row, col) of the dense sources
DenseElem(row, col) == 10 * row + col - 1

DenseMat(nrows, ncols) ==
    [rc \in (0..(nrows - 1)) \X (0..(ncols - 1)) |-> DenseElem(rc[1], rc[2])]

\* the flat storage of the dense source in the given storage order
DenseValues(order, nrows, ncols) ==
    [k \in 1..(nrows * ncols) |->
        IF order = "row_major"
        THEN DenseElem((k - 1) \div ncols, (k - 1) % ncols)
        ELSE DenseElem((k - 1) % nrows, (k - 1) \div nrows)]

TripletFormatters ==
    { LET s == TripletSource(n, p)
      IN triplet_formatter(s.rows, s.cols, s.vals, civ, csv) :
        n \in 0..MaxRecords, p \in BOOLEAN, civ \in BOOLEAN,
        csv \in 1..MaxChunkValues }

CscFormatters ==
    UNION { { LET s == CscSource(counts, p)
              IN csc_formatter(s.ptr, Len(s.ptr) - 1, s.ind, s.vals, t, csv) :
                counts \in [1..nc -> 0..MaxColNnz], p \in BOOLEAN,
                t \in BOOLEAN, csv \in 1..MaxChunkValues } :
            nc \in 0..MaxCols }

\* the ranges a caller hands to the constructor of triplet_formatter: the
\* three lengths are independent
TripletCtorArgs ==
    { [kind |-> "args", class |-> "triplet",
       rows |-> [i \in 1..n |-> TripletRow(i - 1)],
       cols |-> [i \in 1..m |-> TripletCol(i - 1)],
       vals |-> [i \in 1..v |-> TripletVal(i - 1)],
       column_is_value |-> civ, chunk_size_values |-> csv] :
        n \in 0..MaxRecords, m \in 0..MaxRecords, v \in 0..MaxRecords,
        civ \in BOOLEAN, csv \in 1..MaxChunkValues }

\* the ranges a caller hands to the constructor of csc_formatter: the value
\* range is empty or up to one longer than the index range
CscCtorArgs ==
    UNION { { LET s == CscSource(counts, TRUE)
              IN [kind |-> "args", class |-> "csc",
                  ptr |-> s.ptr, ind |-> s.ind,
                  vals |-> [k \in 1..v |-> CscVal(k - 1)],
                  transpose |-> t, chunk_size_values |-> csv] :
                counts \in [1..nc -> 0..MaxColNnz],
                v \in 0..(MaxCols * MaxColNnz + 1),
                t \in BOOLEAN, csv \in 1..MaxChunkValues } :
            nc \in 0..MaxCols }

ArrayFormatters ==
    { array_formatter(DenseValues(o, nr, nc), o, nr, nc, csv) :
        o \in {"row_major", "col_major"}, nr \in 0..MaxDim, nc \in 0..MaxDim,
        csv \in 1..MaxChunkValues }

Dense2dFormatters ==
    { dense_2d_call_formatter(DenseMat(nr, nc), nr, nc, csv) :
        nr \in 0..MaxDim, nc \in 0..MaxDim, csv \in 1..MaxChunkValues }

RowMajorFormatters ==
    { row_major_array_formatter(DenseValues("row_major", nr, nc), nr, csv) :
        nr \in 1..MaxDim, nc \in 0..MaxDim, csv \in 1..MaxChunkValues }

(***************************************************************************)
(* Draining a formatter: next_chunk while has_next; the producers are      *)
(* invoked in any order, as tasks of the write pool are.                   *)
(***************************************************************************)
has_next(f) ==
    CASE f.kind = "triplet" -> triplet_has_next(f)
      [] f.kind = "csc" -> csc_has_next(f)
      [] f.kind = "array" -> array_has_next(f)
      [] f.kind = "dense2d" -> dense_2d_has_next(f)
      [] f.kind = "rowmajor" -> row_major_has_next(f)
      [] OTHER -> FALSE

chunk_call(f, c) ==
    CASE f.kind = "triplet" -> triplet_chunk_call(f, c)
      [] f.kind = "csc" -> csc_chunk_call(f, c)
      [] f.kind = "array" -> array_chunk_call(f, c)
      [] f.kind = "dense2d" -> dense_2d_chunk_call(f, c)
      [] f.kind = "rowmajor" -> row_major_chunk_call(f, c)

NoFormatter == [kind |-> "none"]

\* no function of the bindings is being called
NoCall == [fn |-> "none"]

BindIdle ==
    /\ call = NoCall
    /\ out = <<>>

ReadIdle ==
    /\ hdr = [format |-> "none"]
    /\ opts = [num_threads |-> 0]
    /\ src = [kind |-> "none"]
    /\ body = <<>>
    /\ spos = 0
    /\ sgood = FALSE
    /\ pc = "idle"
    /\ seed_i = 0
    /\ line_num = 0
    /\ line_count_futures = <<>>
    /\ chunks = <<>>
    /\ tasks = <<>>
    /\ arrays = <<>>
    /\ oob = FALSE
    /\ result = [state |-> "none"]

\* triplet_formatter and csc_formatter are yet to be constructed from the
\* caller's ranges; the constructors of the dense formatters only store their
\* arguments
InitWrite ==
    /\ fmt \in TripletCtorArgs \cup CscCtorArgs \cup ArrayFormatters
                \cup Dense2dFormatters \cup RowMajorFormatters
    /\ emitted = <<>>
    /\ texts = <<>>
    /\ ReadIdle
    /\ BindIdle

\* what the caller holds after the constructor: the formatter, or the
\* exception next to the ranges it passed
Constructed(r, args) ==
    IF r.kind = "invalid_argument"
    THEN [kind |-> r.kind, what |-> r.what, args |-> args]
    ELSE r

ConstructTriplet ==
    /\ fmt.kind = "args" /\ fmt.class = "triplet"
    /\ fmt' = Constructed(triplet_formatter(fmt.rows, fmt.cols, fmt.vals,
                                            fmt.column_is_value,
                                            fmt.chunk_size_values), fmt)
    /\ UNCHANGED <<emitted, texts>>
    /\ UNCHANGED <<rvars, bvars>>

ConstructCsc ==
    /\ fmt.kind = "args" /\ fmt.class = "csc"
    /\ fmt' = Constructed(csc_formatter(fmt.ptr, Len(fmt.ptr) - 1, fmt.ind,
                                        fmt.vals, fmt.transpose,
                                        fmt.chunk_size_values), fmt)
    /\ UNCHANGED <<emitted, texts>>
    /\ UNCHANGED <<rvars, bvars>>

Emit(r) ==
    /\ fmt' = r.fmt
    /\ emitted' = Append(emitted, r.chunk)
    /\ texts' = Append(texts, <<>>)
    /\ UNCHANGED <<rvars, bvars>>

TripletNextChunk ==
    /\ fmt.kind = "triplet" /\ triplet_has_next(fmt)
    /\ Emit(triplet_next_chunk(fmt))

CscNextChunk ==
    /\ fmt.kind = "csc" /\ csc_has_next(fmt)
    /\ Emit(csc_next_chunk(fmt))

ArrayNextChunk ==
    /\ fmt.kind = "array" /\ array_has_next(fmt)
    /\ Emit(array_next_chunk(fmt))

Dense2dNextChunk ==
    /\ fmt.kind = "dense2d" /\ dense_2d_has_next(fmt)
    /\ Emit(dense_2d_next_chunk(fmt))

RowMajorNextChunk ==
    /\ fmt.kind = "rowmajor" /\ row_major_has_next(fmt)
    /\ Emit(row_major_next_chunk(fmt))

\* a worker (or the caller) invokes producer i
InvokeChunk ==
    \E i \in 1..Len(emitted) :
        /\ Len(texts[i]) < MaxCalls
        /\ LET r == chunk_call(fmt, emitted[i])
           IN /\ emitted' = [emitted EXCEPT ![i] = r.chunk]
              /\ texts' = [texts EXCEPT ![i] = Append(@, r.text)]
        /\ UNCHANGED <<fmt>>
        /\ UNCHANGED <<rvars, bvars>>

NextWrite ==
    \/ ConstructTriplet
    \/ ConstructCsc
    \/ TripletNextChunk
    \/ CscNextChunk
    \/ ArrayNextChunk
    \/ Dense2dNextChunk
    \/ RowMajorNextChunk
    \/ InvokeChunk

SpecWrite == InitWrite /\ [][NextWrite]_vars

\* the formatter is drained and every producer has run
Drained ==
    /\ fmt.kind \notin {"none", "args", "invalid_argument"}
    /\ ~has_next(fmt)
    /\ \A i \in 1..Len(emitted) : Len(texts[i]) >= 1

\* the chunk texts (first invocation of each producer) in emission order
WrittenBody == Flatten([i \in 1..Len(emitted) |-> texts[i][1]])

(***************************************************************************)
(* write_body, run sequentially: the text the write engine puts on the     *)
(* stream is the producers' texts in emission order                        *)
(***************************************************************************)
next_chunk(f) ==
    CASE f.kind = "triplet" -> triplet_next_chunk(f)
      [] f.kind = "csc" -> csc_next_chunk(f)
      [] f.kind = "array" -> array_next_chunk(f)
      [] f.kind = "dense2d" -> dense_2d_next_chunk(f)
      [] f.kind = "rowmajor" -> row_major_next_chunk(f)

RECURSIVE write_body(_)
write_body(f) ==
    IF ~has_next(f) THEN <<>>
    ELSE LET r == next_chunk(f)
         IN chunk_call(r.fmt, r.chunk).text \o write_body(r.fmt)

(***************************************************************************)
(* Reading text: the chunker, the line counter and the chunk parsers       *)
(***************************************************************************)
IsSpace(ch) == ch \in {" ", "\t", "\r"}
IsDigit(ch) == \E d \in 1..10 : DigitChars[d] = ch
DigitVal(ch) == (CHOOSE d \in 1..10 : DigitChars[d] = ch) - 1

\* the lines of a text, without their newlines; an unterminated last line
\* counts when it has content
RECURSIVE SplitLines(_, _, _)
SplitLines(t, i, cur) ==
    IF i > Len(t) THEN (IF cur = <<>> THEN <<>> ELSE <<cur>>)
    ELSE IF t[i] = kNewline THEN <<cur>> \o SplitLines(t, i + 1, <<>>)
    ELSE SplitLines(t, i + 1, Append(cur, t[i]))

\* the whitespace-separated tokens of a line
RECURSIVE Tokens(_, _, _)
Tokens(l, i, cur) ==
    IF i > Len(l) THEN (IF cur = <<>> THEN <<>> ELSE <<cur>>)
    ELSE IF IsSpace(l[i])
         THEN (IF cur = <<>> THEN <<>> ELSE <<cur>>) \o Tokens(l, i + 1, <<>>)
    ELSE Tokens(l, i + 1, Append(cur, l[i]))

RECURSIVE DigitsValue(_, _)
DigitsValue(ds, acc) ==
    IF ds = <<>> THEN acc
    ELSE DigitsValue(Tail(ds), 10 * acc + DigitVal(Head(ds)))

\* an integer token: optional sign, then decimal digits only
IsIntToken(tok) ==
    LET ds == IF tok /= <<>> /\ Head(tok) \in {"-", "+"} THEN Tail(tok) ELSE tok
    IN ds /= <<>> /\ \A k \in 1..Len(ds) : IsDigit(ds[k])

parse_int(tok) ==
    IF Head(tok) = "-" THEN 0 - DigitsValue(Tail(tok), 0)
    ELSE IF Head(tok) = "+" THEN DigitsValue(Tail(tok), 0)
    ELSE DigitsValue(tok, 0)

\* count_lines: newline-terminated lines, plus one for an unterminated last
\* line with content
count_lines(chunk) ==
    Cardinality({k \in 1..Len(chunk) : chunk[k] = kNewline})
        + (IF chunk /= <<>> /\ Last(chunk) /= kNewline THEN 1 ELSE 0)

\* get_next_chunk on a stream at position pos: up to chunk_size_bytes bytes,
\* extended to the next newline.  good turns false when the read runs into
\* the end of the stream.
RECURSIVE NextNewline(_, _)
NextNewline(b, i) ==
    IF i > Len(b) THEN 0
    ELSE IF b[i] = kNewline THEN i ELSE NextNewline(b, i + 1)

get_next_chunk(b, pos, chunk_size_bytes) ==
    LET remaining == Len(b) - pos
    IN IF remaining < chunk_size_bytes
       THEN [chunk |-> SubSeq(b, pos + 1, Len(b)), pos |-> Len(b),
             good |-> FALSE]
       ELSE IF b[pos + chunk_size_bytes] = kNewline
       THEN [chunk |-> SubSeq(b, pos + 1, pos + chunk_size_bytes),
             pos |-> pos + chunk_size_bytes, good |-> TRUE]
       ELSE LET nl == NextNewline(b, pos + chunk_size_bytes + 1)
            IN IF nl = 0
               THEN [chunk |-> SubSeq(b, pos + 1, Len(b)), pos |-> Len(b),
                     good |-> FALSE]
               ELSE [chunk |-> SubSeq(b, pos + 1, nl), pos |-> nl,
                     good |-> TRUE]

\* The chunk parsers return the records they hand to the handler, in order,
\* and whether they raised; a parser that raises has delivered the records
\* before the offending line.  err_line is the line number it reports.
Raise(line) == [recs |-> <<>>, raised |-> TRUE, err_line |-> line]
NoMore == [recs |-> <<>>, raised |-> FALSE, err_line |-> 0]
Deliver(rec, rest) ==
    [recs |-> <<rec>> \o rest.recs, raised |-> rest.raised,
     err_line |-> rest.err_line]

\* the value every record of a pattern file carries
PatternValue == 1

RECURSIVE coordinate_lines(_, _, _, _)
coordinate_lines(lines, header, lnum, is_vector) ==
    IF lines = <<>> THEN NoMore
    ELSE LET toks == Tokens(Head(lines), 1, <<>>)
             nidx == IF is_vector THEN 1 ELSE 2
             want == IF header.field = "pattern" THEN nidx ELSE nidx + 1
         IN IF toks = <<>>
            THEN coordinate_lines(Tail(lines), header, lnum + 1, is_vector)
            ELSE IF Len(toks) /= want
                    \/ \E k \in 1..Len(toks) : ~IsIntToken(toks[k])
            THEN Raise(lnum)
            ELSE LET row == parse_int(toks[1])
                     col == IF is_vector THEN 1 ELSE parse_int(toks[2])
                     value == IF header.field = "pattern" THEN PatternValue
                              ELSE parse_int(toks[want])
                 IN IF row <= 0 \/ row > header.nrows
                       \/ col <= 0 \/ col > header.ncols
                    THEN Raise(lnum)
                    ELSE Deliver([row |-> row - 1, col |-> col - 1,
                                  value |-> value],
                                 coordinate_lines(Tail(lines), header,
                                                  lnum + 1, is_vector))

read_chunk_matrix_coordinate(chunk, header, lnum) ==
    coordinate_lines(SplitLines(chunk, 1, <<>>), header, lnum, FALSE)

read_chunk_vector_coordinate(chunk, header, lnum) ==
    coordinate_lines(SplitLines(chunk, 1, <<>>), header, lnum, TRUE)

RECURSIVE array_lines(_, _, _, _, _)
array_lines(lines, header, lnum, row, col) ==
    IF lines = <<>> THEN NoMore
    ELSE LET toks == Tokens(Head(lines), 1, <<>>)
         IN IF toks = <<>>
            THEN array_lines(Tail(lines), header, lnum + 1, row, col)
            ELSE IF Len(toks) /= 1 \/ ~IsIntToken(toks[1])
            THEN Raise(lnum)
            ELSE Deliver([row |-> row, col |-> col,
                          value |-> parse_int(toks[1])],
                         array_lines(Tail(lines), header, lnum + 1,
                                     IF row + 1 = header.nrows THEN 0
                                                               ELSE row + 1,
                                     IF row + 1 = header.nrows THEN col + 1
                                                               ELSE col))

read_chunk_array(chunk, header, lnum, row, col) ==
    array_lines(SplitLines(chunk, 1, <<>>), header, lnum, row, col)

(***************************************************************************)
(* Inputs of read_body_threads                                             *)
(***************************************************************************)
MaxChunkBytes == 9      \* read_options.chunk_size_bytes ranges over 1..MaxChunkBytes
MaxThreads == 2         \* read_options.num_threads ranges over 1..MaxThreads
MaxHeaderLines == 3     \* header.header_line_count ranges over 2..MaxHeaderLines
LongRecords == 24       \* records of the long body, one chunk each

Header(object, format, field, nrows, ncols, nnz, h) ==
    [object |-> object, format |-> format, field |-> field,
     nrows |-> nrows, ncols |-> ncols, nnz |-> nnz, header_line_count |-> h]

\* a body written by triplet_formatter
TripletInput(n, pattern, csv, h, csb, nt) ==
    LET s == TripletSource(n, pattern)
    IN [hdr |-> Header("matrix", "coordinate",
                       IF pattern THEN "pattern" ELSE "integer",
                       TripletRows, TripletCols, n, h),
        src |-> [kind |-> "triplet", rows |-> s.rows, cols |-> s.cols,
                 vals |-> s.vals],
        body |-> write_body(triplet_formatter(s.rows, s.cols, s.vals,
                                              FALSE, csv)),
        opts |-> [chunk_size_bytes |-> csb, num_threads |-> nt]]

\* a body written by a dense formatter
DenseInput(f, h, csb, nt) ==
    [hdr |-> Header("matrix", "array", "integer", f.nrows, f.ncols,
                    f.nrows * f.ncols, h),
     src |-> [kind |-> "dense", nrows |-> f.nrows, ncols |-> f.ncols],
     body |-> write_body(f),
     opts |-> [chunk_size_bytes |-> csb, num_threads |-> nt]]

\* bodies that no formatter of the library wrote
Line2(a, b) == a \o <<kSpace>> \o b \o <<kNewline>>
Line3(a, b, c) == a \o <<kSpace>> \o b \o <<kSpace>> \o c \o <<kNewline>>

RawFiles ==
    { \* a blank line between two records
      [hdr |-> Header("matrix", "coordinate", "integer", 2, 2, 2, 2),
       body |-> Line3(<<"1">>, <<"1">>, <<"5">>) \o <<kNewline>>
                \o Line3(<<"2">>, <<"2">>, <<"6">>)],
      \* a malformed index on the second line, a good third line
      [hdr |-> Header("matrix", "coordinate", "integer", 2, 2, 3, 2),
       body |-> Line3(<<"1">>, <<"1">>, <<"5">>)
                \o Line3(<<"2">>, <<"x">>, <<"6">>)
                \o Line3(<<"2">>, <<"2">>, <<"7">>)],
      \* an index beyond the declared dimensions
      [hdr |-> Header("matrix", "coordinate", "integer", 2, 2, 2, 2),
       body |-> Line3(<<"3">>, <<"1">>, <<"5">>)
                \o Line3(<<"2">>, <<"2">>, <<"6">>)],
      \* more records than the header declares, CR+LF, no final newline
      [hdr |-> Header("matrix", "coordinate", "integer", 2, 2, 1, 2),
       body |-> <<"1", " ", "1", " ", "5", "\r", "\n",
                  "2", " ", "2", " ", "6">>],
      \* a coordinate vector
      [hdr |-> Header("vector", "coordinate", "integer", 5, 1, 2, 2),
       body |-> Line2(<<"2">>, <<"1", "5">>) \o Line2(<<"5">>, <<"-", "2">>)],
      \* a 2 by 2 array with a blank line and a malformed value
      [hdr |-> Header("matrix", "array", "integer", 2, 2, 4, 2),
       body |-> <<"1", kNewline, kNewline, "2", kNewline, "y", kNewline,
                  "4", kNewline>>] }

RawInput(file, csb, nt) ==
    [hdr |-> file.hdr, src |-> [kind |-> "raw"], body |-> file.body,
     opts |-> [chunk_size_bytes |-> csb, num_threads |-> nt]]

DenseReadFormatters ==
    { f \in ArrayFormatters \cup Dense2dFormatters :
        f.nrows >= 1 /\ f.ncols >= 1 }

ReadInputs ==
    { TripletInput(n, p, csv, h, csb, nt) :
        n \in 0..MaxRecords, p \in BOOLEAN, csv \in 1..MaxChunkValues,
        h \in 2..MaxHeaderLines, csb \in 1..MaxChunkBytes,
        nt \in 1..MaxThreads }
    \cup { DenseInput(f, h, csb, nt) :
        f \in DenseReadFormatters, h \in {2}, csb \in 1..MaxChunkBytes,
        nt \in 1..MaxThreads }
    \cup { RawInput(file, csb, nt) :
        file \in RawFiles, csb \in 1..MaxChunkBytes, nt \in 1..MaxThreads }
    \* one long body, a record per chunk, so that the pool fills up
    \cup { TripletInput(LongRecords, TRUE, 1, 2, 1, nt) :
        nt \in 1..MaxThreads }

(***************************************************************************)
(* read_body_threads                                                       *)
(***************************************************************************)
InflightPerThread == 10

\* const unsigned inflight_count = 10 * pool.get_thread_count()
inflight_count(thread_count) == InflightPerThread * thread_count

\* pool.get_tasks_total(): tasks queued or running
\* a pool that always reports no task
get_tasks_total_idle == Len(<<>>)

get_tasks_total == Len(tasks)

\* is_ready that does not look at the future: every chunk counts as ready
is_ready_always(k) == TRUE

\* a future that never shows as ready
is_ready_never(k) == FALSE

\* is_ready(future of chunk k): its line-count task has finished
is_ready(k) ==
    ~\E t \in 1..Len(tasks) : tasks[t].kind = "count" /\ tasks[t].id = k

\* a line_count_result whose chunk was never assigned
line_count_result_unassigned(chunk) ==
    [chunk |-> <<>>, chunk_line_start |-> -1, chunk_line_count |-> -1,
     parse |-> "none", body_line |-> -1, row |-> -1, col |-> -1,
     recs |-> <<>>, parse_runs |-> 0]

\* line_count_result lcr; lcr.chunk = get_next_chunk(instream, options)
line_count_result(chunk) ==
    [chunk |-> chunk, chunk_line_start |-> -1, chunk_line_count |-> -1,
     parse |-> "none", body_line |-> -1, row |-> -1, col |-> -1,
     recs |-> <<>>, parse_runs |-> 0]

\* count_chunk_lines
count_chunk_lines(lcr) ==
    [lcr EXCEPT !.chunk_line_count = count_lines(lcr.chunk)]

\* the test without the backpressure on the pool
may_dispatch_unbounded(total, cap, front_ready) == front_ready

\* the test that lets the producer take the front chunk
may_dispatch(total, cap, front_ready) == total < cap /\ front_ready

\* lcr.chunk_line_start = line_num
chunk_line_start_of(ln) == ln

\* line_num left where it was
\* a line number that counts chunks, not lines
advance_line_num_by_one(ln, chunk_line_count) == ln + 1

advance_line_num_stuck(ln, chunk_line_count) == ln

\* line_num += lcr.chunk_line_count
advance_line_num(ln, chunk_line_count) == ln + chunk_line_count

\* body_line taken as the file line, the header lines not subtracted
body_line_of_file_line(chunk_line_start, header) == chunk_line_start

\* auto body_line = lcr.chunk_line_start - header.header_line_count
body_line_of(chunk_line_start, header) ==
    chunk_line_start - header.header_line_count

\* row = body_line % header.ncols; col = body_line / header.ncols
array_row_of(bl, header) == bl % header.ncols
array_col_of(bl, header) == bl \div header.ncols

(***************************************************************************)
(* triplet_numpy_parse_handler                                             *)
(***************************************************************************)
\* a chunk handler that starts at the beginning of the arrays whatever its
\* chunk
get_chunk_handler_shared(offset_from_begin) == [offset |-> 0]

\* get_chunk_handler(offset_from_begin): a handler over the same arrays
get_chunk_handler(offset_from_begin) == [offset |-> offset_from_begin]

\* handle(row, col, value) on arrays a by handler h: the arrays, the handler
\* and whether the write fell outside the arrays
handle(a, h, rec) ==
    IF h.offset < Len(a.rows)
    THEN [arrays |-> [rows |-> [a.rows EXCEPT ![h.offset + 1] = rec.row],
                      cols |-> [a.cols EXCEPT ![h.offset + 1] = rec.col],
                      values |-> [a.values EXCEPT ![h.offset + 1] = rec.value]],
          handler |-> [offset |-> h.offset + 1], oob |-> FALSE]
    ELSE [arrays |-> a, handler |-> [offset |-> h.offset + 1], oob |-> TRUE]

RECURSIVE handle_all(_, _, _)
handle_all(a, h, recs) ==
    IF recs = <<>> THEN [arrays |-> a, handler |-> h, oob |-> FALSE]
    ELSE LET one == handle(a, h, Head(recs))
             rest == handle_all(one.arrays, one.handler, Tail(recs))
         IN [arrays |-> rest.arrays, handler |-> rest.handler,
             oob |-> one.oob \/ rest.oob]

\* the zeroed arrays of nnz elements the caller passes in
ZeroArrays(nnz) ==
    [rows |-> [k \in 1..nnz |-> 0], cols |-> [k \in 1..nnz |-> 0],
     values |-> [k \in 1..nnz |-> 0]]

\* the parser the engine picks for the header
run_parser(lcr, header) ==
    IF header.format = "array"
    THEN read_chunk_array(lcr.chunk, header, lcr.chunk_line_start,
                          lcr.row, lcr.col)
    ELSE IF header.object = "matrix"
    THEN read_chunk_matrix_coordinate(lcr.chunk, header, lcr.chunk_line_start)
    ELSE read_chunk_vector_coordinate(lcr.chunk, header, lcr.chunk_line_start)

(***************************************************************************)
(* The producer (main thread) and the pool's workers                       *)
(***************************************************************************)
InitReadFrom(inputs) ==
    /\ fmt = NoFormatter
    /\ emitted = <<>>
    /\ texts = <<>>
    /\ \E inp \in inputs :
          /\ hdr = inp.hdr
          /\ opts = inp.opts
          /\ src = inp.src
          /\ body = inp.body
          /\ arrays = IF inp.hdr.format = "coordinate"
                      THEN ZeroArrays(inp.hdr.nnz) ELSE ZeroArrays(0)
    /\ spos = 0
    /\ sgood = TRUE
    /\ pc = "seed"
    /\ seed_i = 0
    /\ line_num = hdr.header_line_count
    /\ line_count_futures = <<>>
    /\ chunks = <<>>
    /\ tasks = <<>>
    /\ oob = FALSE
    /\ result = [state |-> "running"]
    /\ BindIdle

InitRead == InitReadFrom(ReadInputs)

Cap == inflight_count(opts.num_threads)

\* read the next chunk and submit its line-count task
ReadAndCount ==
    LET r == get_next_chunk(body, spos, opts.chunk_size_bytes)
        id == Len(chunks) + 1
    IN /\ spos' = r.pos
       /\ sgood' = r.good
       /\ chunks' = Append(chunks, line_count_result(r.chunk))
       /\ line_count_futures' = Append(line_count_futures, id)
       /\ tasks' = Append(tasks, [kind |-> "count", id |-> id])

\* one pass of the seeding loop
Seed ==
    /\ pc = "seed"
    /\ seed_i < Cap /\ sgood
    /\ ReadAndCount
    /\ seed_i' = seed_i + 1
    /\ UNCHANGED <<hdr, opts, src, body, pc, line_num, arrays, oob, result>>
    /\ UNCHANGED <<wvars, bvars>>

SeedDone ==
    /\ pc = "seed"
    /\ ~(seed_i < Cap /\ sgood)
    /\ pc' = "loop"
    /\ UNCHANGED <<hdr, opts, src, body, spos, sgood, seed_i, line_num,
                   line_count_futures, chunks, tasks, arrays, oob, result>>
    /\ UNCHANGED <<wvars, bvars>>

\* an iteration that goes on to the front chunk without starting another
Refill_without_read ==
    /\ pc = "loop"
    /\ line_count_futures /= <<>>
    /\ may_dispatch(get_tasks_total, Cap, is_ready(Head(line_count_futures)))
    /\ pc' = "dispatch"
    /\ UNCHANGED <<hdr, opts, src, body, spos, sgood, seed_i, line_num,
                   line_count_futures, chunks, tasks, arrays, oob, result>>
    /\ UNCHANGED <<wvars, bvars>>

\* the front chunk is counted and the pool has room: start another chunk to
\* replace it.  When the test fails the producer yields and tests again.
Refill ==
    /\ pc = "loop"
    /\ line_count_futures /= <<>>
    /\ may_dispatch(get_tasks_total, Cap, is_ready(Head(line_count_futures)))
    /\ IF sgood THEN ReadAndCount
                ELSE UNCHANGED <<spos, sgood, chunks, line_count_futures,
                                 tasks>>
    /\ pc' = "dispatch"
    /\ UNCHANGED <<hdr, opts, src, body, seed_i, line_num, arrays, oob,
                   result>>
    /\ UNCHANGED <<wvars, bvars>>

\* take the front chunk, place it and submit its parse task
Dispatch ==
    /\ pc = "dispatch"
    /\ LET id == Head(line_count_futures)
           start == chunk_line_start_of(line_num)
           bl == body_line_of(start, hdr)
       IN /\ line_count_futures' = Tail(line_count_futures)
          /\ line_num' = advance_line_num(line_num,
                                          chunks[id].chunk_line_count)
          /\ chunks' = [chunks EXCEPT
                ![id] = [@ EXCEPT
                    !.chunk_line_start = start,
                    !.body_line = bl,
                    !.row = IF hdr.format = "array"
                            THEN array_row_of(bl, hdr) ELSE -1,
                    !.col = IF hdr.format = "array"
                            THEN array_col_of(bl, hdr) ELSE -1,
                    !.parse = "submitted"]]
          /\ tasks' = Append(tasks, [kind |-> "parse", id |-> id])
    /\ pc' = "loop"
    /\ UNCHANGED <<hdr, opts, src, body, spos, sgood, seed_i, arrays, oob,
                   result>>
    /\ UNCHANGED <<wvars, bvars>>

LoopExit ==
    /\ pc = "loop"
    /\ line_count_futures = <<>>
    /\ pc' = "wait"
    /\ UNCHANGED <<hdr, opts, src, body, spos, sgood, seed_i, line_num,
                   line_count_futures, chunks, tasks, arrays, oob, result>>
    /\ UNCHANGED <<wvars, bvars>>

\* a join that does not wait
wait_for_tasks_returns_at_once(total) == TRUE

\* pool.wait_for_tasks() returns once no task is queued or running
wait_for_tasks(total) == total = 0

\* pool.wait_for_tasks(); return line_num
WaitForTasks ==
    /\ pc = "wait"
    /\ wait_for_tasks(get_tasks_total)
    /\ pc' = "done"
    /\ result' = [state |-> "returned", value |-> line_num]
    /\ UNCHANGED <<hdr, opts, src, body, spos, sgood, seed_i, line_num,
                   line_count_futures, chunks, tasks, arrays, oob>>
    /\ UNCHANGED <<wvars, bvars>>

RemoveAt(s, i) == SubSeq(s, 1, i - 1) \o SubSeq(s, i + 1, Len(s))

\* the tasks the pool's threads can be running: the oldest num_threads
Runnable == 1..Min(opts.num_threads, Len(tasks))

\* a worker finishes a line-count task
WorkerCountLines ==
    \E t \in Runnable :
        /\ tasks[t].kind = "count"
        /\ chunks' = [chunks EXCEPT
                        ![tasks[t].id] = count_chunk_lines(@)]
        /\ tasks' = RemoveAt(tasks, t)
        /\ UNCHANGED <<hdr, opts, src, body, spos, sgood, pc, seed_i,
                       line_num, line_count_futures, arrays, oob, result>>
        /\ UNCHANGED <<wvars, bvars>>

\* a worker finishes a parse task.  An exception of the parser ends the task;
\* it is stored in the future of the task, which the producer dropped.
WorkerParse ==
    \E t \in Runnable :
        /\ tasks[t].kind = "parse"
        /\ LET id == tasks[t].id
               lcr == chunks[id]
           IN \E p \in {run_parser(lcr, hdr)} :
              \E w \in {IF hdr.format = "coordinate"
                         THEN handle_all(arrays,
                                         get_chunk_handler(lcr.body_line),
                                         p.recs)
                         ELSE [arrays |-> arrays, handler |-> <<>>,
                               oob |-> FALSE]} :
                 /\ chunks' = [chunks EXCEPT
                       ![id] = [@ EXCEPT
                           !.parse = IF p.raised THEN "raised" ELSE "done",
                           !.recs = p.recs,
                           !.parse_runs = @ + 1]]
                 /\ arrays' = w.arrays
                 /\ oob' = (oob \/ w.oob)
        /\ tasks' = RemoveAt(tasks, t)
        /\ UNCHANGED <<hdr, opts, src, body, spos, sgood, pc, seed_i,
                       line_num, line_count_futures, result>>
        /\ UNCHANGED <<wvars, bvars>>

Next ==
    \/ Seed
    \/ SeedDone
    \/ Refill
    \/ Dispatch
    \/ LoopExit
    \/ WaitForTasks
    \/ WorkerCountLines
    \/ WorkerParse

Spec == InitRead /\ [][Next]_vars

\* The main thread keeps running (a failed test only yields and tests again)
\* and the pool's threads run every task handed to them.
Producer == Seed \/ SeedDone \/ Refill \/ Dispatch \/ LoopExit \/ WaitForTasks

\* the inputs of the runs followed to their end: the long body, the longest
\* written body in chunks of one line and as a single chunk, and the bodies
\* no formatter wrote
FairInputs ==
    { TripletInput(LongRecords, TRUE, 1, 2, 1, nt) : nt \in 1..MaxThreads }
    \cup { TripletInput(MaxRecords, FALSE, 1, 2, csb, nt) :
            csb \in {1, MaxChunkBytes}, nt \in 1..MaxThreads }
    \cup { RawInput(file, 1, nt) : file \in RawFiles, nt \in 1..MaxThreads }

InitFair == InitReadFrom(FairInputs)

\* Fairness: as long as some thread can take a step, a step is taken.  This
\* is the weakest of the conditions the scheduling gives: fairness to the
\* main thread and to each thread of the pool implies it.
FairSpec == InitFair /\ [][Next]_vars /\ WF_vars(Next)

(***************************************************************************)
(* The Python bindings: write_array, write_triplet, write_csc and          *)
(* read_body_triplet.  hdr is cursor.header, opts cursor.options, out the  *)
(* contents of the write_cursor's stream.                                  *)
(***************************************************************************)
MaxBindLen == 2         \* arrays handed to the bindings hold 0..MaxBindLen+1 elements

\* fmm::write_header: the banner, its tokens taken as single symbols, and
\* the dimension line
write_header(h) ==
    <<"%%MatrixMarket", kSpace, h.object, kSpace, h.format, kSpace, h.field,
      kSpace, h.symmetry, kNewline>>
        \o int_to_string(h.nrows) \o <<kSpace>> \o int_to_string(h.ncols)
        \o (IF h.format = "coordinate"
            THEN <<kSpace>> \o int_to_string(h.nnz) ELSE <<>>)
        \o <<kNewline>>

\* how a function of the bindings ends: the cursor it leaves behind, and the
\* exception when it threw
Thrown(cur, what) ==
    [cursor |-> cur, state |-> "invalid_argument", what |-> what]
Returned(cur) == [cursor |-> cur, state |-> "returned", what |-> "none"]

\* the write_cursor of the call
write_cursor == [header |-> hdr, options |-> opts, stream |-> out]

\* the header write_array assigns
array_header(h, array) ==
    [h EXCEPT !.nrows = array.shape[1], !.ncols = array.shape[2],
              !.object = "matrix", !.field = "integer", !.format = "array",
              !.symmetry = "general"]

write_array(cur, array) ==
    IF array.ndim /= 2
    THEN Thrown(cur, "Only 2D arrays supported.")
    ELSE LET h == array_header(cur.header, array)
             formatter == dense_2d_call_formatter(
                              array.mat, h.nrows, h.ncols,
                              cur.options.chunk_size_values)
         IN Returned([cur EXCEPT !.header = h,
                                 !.stream = @ \o write_header(h)
                                              \o write_body(formatter)])

\* the header write_triplet and write_csc assign
sparse_header(h, shape, nnz, data) ==
    [h EXCEPT !.nrows = shape[1], !.ncols = shape[2], !.nnz = nnz,
              !.object = "matrix",
              !.field = IF Len(data) = 0 THEN "pattern" ELSE "integer",
              !.format = "coordinate", !.symmetry = "general"]

\* the header written, then the formatter constructed and its body written;
\* an exception of the constructor leaves the header on the stream
write_sparse(cur, h, formatter) ==
    LET headed == [cur EXCEPT !.header = h, !.stream = @ \o write_header(h)]
    IN IF formatter.kind = "invalid_argument"
       THEN Thrown(headed, formatter.what)
       ELSE Returned([headed EXCEPT !.stream = @ \o write_body(formatter)])

\* a write_triplet that tests the length of data after it has written the
\* header
write_triplet_validates_late(cur, shape, rows, cols, data) ==
    IF Len(rows) /= Len(cols)
    THEN Thrown(cur, "len(row) must equal len(col).")
    ELSE LET h == sparse_header(cur.header, shape, Len(rows), data)
             headed == [cur EXCEPT !.header = h,
                                   !.stream = @ \o write_header(h)]
         IN IF Len(rows) /= Len(data) /\ Len(data) /= 0
            THEN Thrown(headed, "len(row) must equal len(data).")
            ELSE write_sparse(cur, h,
                     triplet_formatter(rows, cols, data, FALSE,
                                       cur.options.chunk_size_values))

write_triplet(cur, shape, rows, cols, data) ==
    IF Len(rows) /= Len(cols)
    THEN Thrown(cur, "len(row) must equal len(col).")
    ELSE IF Len(rows) /= Len(data) /\ Len(data) /= 0
    THEN Thrown(cur, "len(row) must equal len(data).")
    ELSE write_sparse(cur, sparse_header(cur.header, shape, Len(rows), data),
             triplet_formatter(rows, cols, data, FALSE,
                               cur.options.chunk_size_values))

\* the length write_csc holds indptr against: std::get<1>(shape) + 1
csc_indptr_size(shape, is_csr) == shape[2] + 1

write_csc(cur, shape, indptr, indices, data, is_csr) ==
    IF Len(indptr) /= csc_indptr_size(shape, is_csr)
    THEN Thrown(cur, "indptr length does not match matrix shape.")
    ELSE IF Len(indices) /= Len(data) /\ Len(data) /= 0
    THEN Thrown(cur, "len(indices) must equal len(data).")
    ELSE write_sparse(cur,
             sparse_header(cur.header, shape, Len(indices), data),
             csc_formatter(indptr, Len(indptr) - 1, indices, data, is_csr,
                           cur.options.chunk_size_values))

\* a test that looks at the row array only
read_body_triplet_row_size_differs(row_size, col_size, data_size, nnz) ==
    row_size /= nnz

\* the test of read_body_triplet
read_body_triplet_size_differs(row_size, col_size, data_size, nnz) ==
    row_size /= nnz \/ col_size /= nnz \/ data_size /= nnz

\* the header open_write_file / open_write_string stored in the cursor
OpenHeader ==
    [object |-> "matrix", format |-> "coordinate", field |-> "real",
     symmetry |-> "general", nrows |-> 0, ncols |-> 0, nnz |-> 0,
     header_line_count |-> 1]

\* the calls of the write functions: arrays of independent lengths, shapes
\* that are square and not
WriteCalls ==
    { [fn |-> "write_array", state |-> "pending", what |-> "none",
       array |-> [ndim |-> 2, shape |-> <<nr, nc>>, mat |-> DenseMat(nr, nc)]] :
        nr \in 0..MaxBindLen, nc \in 0..MaxBindLen }
    \cup { [fn |-> "write_array", state |-> "pending", what |-> "none",
            array |-> [ndim |-> nd]] : nd \in {1, 3} }
    \cup { [fn |-> "write_triplet", state |-> "pending", what |-> "none",
            shape |-> <<TripletRows, TripletCols>>,
            rows |-> [i \in 1..n |-> TripletRow(i - 1)],
            cols |-> [i \in 1..m |-> TripletCol(i - 1)],
            data |-> [i \in 1..v |-> TripletVal(i - 1)]] :
            n \in 0..MaxBindLen, m \in 0..MaxBindLen,
            v \in 0..(MaxBindLen + 1) }
    \cup UNION { { LET s == CscSource(counts, TRUE)
                   IN [fn |-> "write_csc", state |-> "pending",
                       what |-> "none",
                       shape |-> <<nr, nc>>,
                       indptr |-> s.ptr, indices |-> s.ind,
                       data |-> [k \in 1..v |-> CscVal(k - 1)],
                       is_csr |-> csr] :
                     counts \in [1..np -> 0..1], nr \in 1..MaxBindLen,
                     nc \in 1..MaxBindLen, v \in 0..(MaxBindLen + 1),
                     csr \in BOOLEAN } :
                 np \in 0..(MaxBindLen + 1) }

\* the calls of read_body_triplet: a cursor opened on a written file, and
\* three arrays of independent lengths
ReadCalls ==
    { [fn |-> "read_body_triplet", state |-> "pending", what |-> "none",
       input |-> TripletInput(n, p, 1, 2, csb, nt),
       row_size |-> r, col_size |-> c, data_size |-> d] :
        n \in 0..MaxBindLen, p \in BOOLEAN, csb \in {1, MaxChunkBytes},
        nt \in 1..MaxThreads, r \in 0..(MaxBindLen + 1),
        c \in 0..(MaxBindLen + 1), d \in 0..(MaxBindLen + 1) }

\* the caller's arrays, zeroed
CallerArrays(r, c, d) ==
    [rows |-> [k \in 1..r |-> 0], cols |-> [k \in 1..c |-> 0],
     values |-> [k \in 1..d |-> 0]]

InitBind ==
    /\ fmt = NoFormatter
    /\ emitted = <<>>
    /\ texts = <<>>
    /\ call \in WriteCalls \cup ReadCalls
    /\ out = <<>>
    /\ IF call.fn = "read_body_triplet"
       THEN /\ hdr = call.input.hdr
            /\ opts = call.input.opts
            /\ src = call.input.src
            /\ body = call.input.body
            /\ sgood = TRUE
            /\ arrays = CallerArrays(call.row_size, call.col_size,
                                     call.data_size)
       ELSE /\ hdr = OpenHeader
            /\ opts \in { [chunk_size_values |-> csv, num_threads |-> 1] :
                            csv \in 1..MaxChunkValues }
            /\ src = [kind |-> "none"]
            /\ body = <<>>
            /\ sgood = FALSE
            /\ arrays = <<>>
    /\ spos = 0
    /\ pc = "bind"
    /\ seed_i = 0
    /\ line_num = 0
    /\ line_count_futures = <<>>
    /\ chunks = <<>>
    /\ tasks = <<>>
    /\ oob = FALSE
    /\ result = [state |-> "none"]

\* a write function run from its call to its return or throw
EndWrite(r) ==
    /\ hdr' = r.cursor.header
    /\ out' = r.cursor.stream
    /\ call' = [call EXCEPT !.state = r.state, !.what = r.what]
    /\ UNCHANGED <<opts, src, body, spos, sgood, pc, seed_i, line_num,
                   line_count_futures, chunks, tasks, arrays, oob, result>>
    /\ UNCHANGED wvars

WriteArray ==
    /\ call.fn = "write_array" /\ call.state = "pending"
    /\ EndWrite(write_array(write_cursor, call.array))

WriteTriplet ==
    /\ call.fn = "write_triplet" /\ call.state = "pending"
    /\ EndWrite(write_triplet(write_cursor, call.shape, call.rows, call.cols,
                              call.data))

WriteCsc ==
    /\ call.fn = "write_csc" /\ call.state = "pending"
    /\ EndWrite(write_csc(write_cursor, call.shape, call.indptr,
                          call.indices, call.data, call.is_csr))

\* read_body_triplet up to the start of read_body_threads: the test of the
\* sizes, then the body is read by the pipeline
ReadBodyTriplet ==
    /\ call.fn = "read_body_triplet" /\ call.state = "pending"
    /\ IF read_body_triplet_size_differs(Len(arrays.rows), Len(arrays.cols),
                                         Len(arrays.values), hdr.nnz)
       THEN /\ call' = [call EXCEPT !.state = "invalid_argument",
                          !.what = "NumPy Array sizes need to equal matrix nnz"]
            /\ UNCHANGED <<pc, line_num, result>>
       ELSE /\ call' = [call EXCEPT !.state = "reading"]
            /\ pc' = "seed"
            /\ line_num' = hdr.header_line_count
            /\ result' = [state |-> "running"]
    /\ UNCHANGED <<hdr, opts, src, body, spos, sgood, seed_i,
                   line_count_futures, chunks, tasks, arrays, oob, out>>
    /\ UNCHANGED wvars

\* read_body_threads has returned, and read_body_triplet returns
ReadBodyTripletReturn ==
    /\ call.fn = "read_body_triplet" /\ call.state = "reading"
    /\ pc = "done"
    /\ call' = [call EXCEPT !.state = "returned"]
    /\ UNCHANGED <<out>>
    /\ UNCHANGED rvars
    /\ UNCHANGED wvars

NextBind ==
    \/ WriteArray
    \/ WriteTriplet
    \/ WriteCsc
    \/ ReadBodyTriplet
    \/ ReadBodyTripletReturn
    \/ Next

SpecBind == InitBind /\ [][NextBind]_vars

(***************************************************************************)
(* Reference bodies: what the format prescribes for a source               *)
(***************************************************************************)
\* record i (1-based) of a triplet source as a body line
RefTripletLine(f, i) ==
    int_to_string(f.rows[i] + 1) \o <<kSpace>>
        \o (IF f.column_is_value THEN value_to_string(f.cols[i])
                                 ELSE int_to_string(f.cols[i] + 1))
        \o (IF f.vals = <<>> THEN <<>>
                             ELSE <<kSpace>> \o value_to_string(f.vals[i]))
        \o <<kNewline>>

\* the 0-based column whose pointer range holds entry k (0-based)
CscColumnOf(f, k) ==
    CHOOSE c \in 0..(f.num_columns - 1) : f.ptr[c + 1] <= k /\ k < f.ptr[c + 2]

\* entry k (1-based) of a CSC source as a body line
RefCscLine(f, k) ==
    LET row == int_to_string(f.ind[k] + 1)
        col == int_to_string(CscColumnOf(f, k - 1) + 1)
    IN (IF f.transpose THEN col \o <<kSpace>> \o row
                       ELSE row \o <<kSpace>> \o col)
       \o (IF f.vals = <<>> THEN <<>>
                            ELSE <<kSpace>> \o value_to_string(f.vals[k]))
       \o <<kNewline>>

\* the array body of the nrows by ncols dense source: column-major
ColumnMajorBody(nrows, ncols) ==
    Flatten([k \in 1..(nrows * ncols) |->
                value_to_string(DenseElem((k - 1) % nrows, (k - 1) \div nrows))
                    \o <<kNewline>>])

FullBody(f) ==
    CASE f.kind = "triplet" ->
            Flatten([i \in 1..Len(f.rows) |-> RefTripletLine(f, i)])
      [] f.kind = "csc" ->
            Flatten([k \in 1..Len(f.ind) |-> RefCscLine(f, k)])
      [] OTHER -> ColumnMajorBody(f.nrows, f.ncols)

(***************************************************************************)
(* Claims about the formatters, checked under SpecWrite                    *)
(***************************************************************************)

\* C5: for triplet_formatter, csc_formatter, array_formatter and
\* dense_2d_call_formatter, once the formatter is drained the chunk texts
\* concatenated in emission order are exactly the full body of the source:
\* every record once, in source order.
C5_ConcatIsFullBody ==
    (Drained /\ fmt.kind \in {"triplet", "csc", "array", "dense2d"})
        => WrittenBody = FullBody(fmt)

\* C5 witness: a drained formatter whose body was split over several work
\* units, one of them ending inside the source
C5_Witness ==
    /\ Drained
    /\ fmt.kind \in {"triplet", "csc"}
    /\ Len(emitted) >= 2
    /\ \A i \in 1..Len(emitted) : texts[i][1] /= <<>>
    /\ WrittenBody = FullBody(fmt)

\* C7: every dense formatter (array_formatter in both storage orders,
\* dense_2d_call_formatter, row_major_array_formatter) writes the body in
\* column-major order.
C7_DenseColumnMajor ==
    (Drained /\ fmt.kind \in {"array", "dense2d", "rowmajor"})
        => WrittenBody = ColumnMajorBody(fmt.nrows, fmt.ncols)

\* C10 as stated: the text of every work unit ends with a newline
C10_EveryChunkEndsWithNewline ==
    \A i \in 1..Len(emitted) :
        Len(texts[i]) >= 1
            => (texts[i][1] /= <<>> /\ Last(texts[i][1]) = kNewline)

\* C10 amended: the text of a work unit is either empty or ends with a
\* newline, and a triplet work unit is never empty
C10_NonEmptyChunkEndsWithNewline ==
    \A i \in 1..Len(emitted) :
        Len(texts[i]) >= 1
            => /\ (texts[i][1] = <<>> \/ Last(texts[i][1]) = kNewline)
               /\ (fmt.kind = "triplet" => texts[i][1] /= <<>>)

\* C10 witness: a CSC formatter emitted one work unit with text and one that
\* covers only empty columns
C10_Witness ==
    /\ fmt.kind = "csc"
    /\ \E i, j \in 1..Len(emitted) :
          /\ Len(texts[i]) >= 1 /\ texts[i][1] = <<>>
          /\ Len(texts[j]) >= 1 /\ texts[j][1] /= <<>>
          /\ Last(texts[j][1]) = kNewline

(***************************************************************************)
(* Claims about read_body_threads, checked under Spec                      *)
(***************************************************************************)
\* lines and records of the chunks read before chunk k
LinesBefore(k) == SumSeq([j \in 1..(k - 1) |-> count_lines(chunks[j].chunk)])

RecordCount(chunk) ==
    LET ls == SplitLines(chunk, 1, <<>>)
    IN Cardinality({i \in 1..Len(ls) : Tokens(ls[i], 1, <<>>) /= <<>>})

RecordsBefore(k) == SumSeq([j \in 1..(k - 1) |-> RecordCount(chunks[j].chunk)])

Placed(k) == chunks[k].parse /= "none"

\* C1: the k-th chunk read from the stream gets chunk_line_start =
\* header_line_count + the line counts of all chunks read before it, whatever
\* the order in which the line-count tasks finish; the values never decrease
\* in stream order.
C1_LineStartInStreamOrder ==
    /\ \A k \in 1..Len(chunks) :
          Placed(k) =>
              chunks[k].chunk_line_start
                  = hdr.header_line_count + LinesBefore(k)
    /\ \A j, k \in 1..Len(chunks) :
          (j < k /\ Placed(k)) =>
              /\ Placed(j)
              /\ chunks[j].chunk_line_start <= chunks[k].chunk_line_start

\* C1 witness: two chunks are placed at different lines while the line count
\* of a later chunk has finished before that of an earlier one
C1_Witness ==
    /\ \E a, b \in 1..Len(chunks) :
          /\ a < b /\ Placed(a) /\ Placed(b)
          /\ chunks[a].chunk_line_start < chunks[b].chunk_line_start
    /\ \E k, m \in 1..Len(chunks) :
          /\ k < m
          /\ chunks[k].chunk_line_count = -1
          /\ chunks[m].chunk_line_count /= -1

\* chunks read whose parse task has not completed: those in the line-count
\* FIFO and those whose parse task is queued or running
ParsePending == {k \in 1..Len(chunks) : chunks[k].parse = "submitted"}
InFlight == Len(line_count_futures) + Cardinality(ParsePending)

\* C2 as stated: the number of in-flight chunks never exceeds
\* 10 * num_threads
C2_InFlightAtMostCap == InFlight <= InflightPerThread * opts.num_threads

\* C2 amended: the number of in-flight chunks never exceeds twice
\* 10 * num_threads (the FIFO and the unfinished parse tasks are each
\* bounded, not their sum)
C2_InFlightAtMostTwiceCap ==
    (pc /= "idle") => InFlight <= 2 * (InflightPerThread * opts.num_threads)

\* C2 witness: more chunks are in flight than 10 * num_threads, with chunks
\* of the stream still unread
C2_Witness ==
    /\ pc \in {"loop", "dispatch"}
    /\ InFlight > InflightPerThread * opts.num_threads
    /\ spos < Len(body)

\* C3: when a parse task raised, read_body_threads does not return normally
C3_WorkerErrorSurfaces ==
    (\E k \in 1..Len(chunks) : chunks[k].parse = "raised")
        => result.state /= "returned"

\* the records delivered to the handler, in stream order of their chunks
Delivered == Flatten([k \in 1..Len(chunks) |-> chunks[k].recs])

\* the reference sequential parse: the whole body as a single chunk
RefParse ==
    run_parser([chunk |-> body, chunk_line_start |-> hdr.header_line_count,
                row |-> 0, col |-> 0], hdr)

RefArrays ==
    handle_all(ZeroArrays(Len(arrays.rows)), get_chunk_handler(0),
               RefParse.recs).arrays

\* C4: for a well-formed body the records delivered, and the final contents
\* of the output arrays of the triplet handler, equal those of the reference
\* sequential parse for every chunk_size_bytes and num_threads
C4_ChunkIndependence ==
    (pc = "done" /\ ~RefParse.raised) =>
        /\ Delivered = RefParse.recs
        /\ hdr.format = "coordinate" => arrays = RefArrays

\* C6: the start position handed to read_chunk_array for a chunk whose first
\* record has body ordinal ord is (ord % nrows, ord / nrows)
C6_ArrayStartColumnMajor ==
    \A k \in 1..Len(chunks) :
        (hdr.format = "array" /\ Placed(k)) =>
            /\ chunks[k].row = RecordsBefore(k) % hdr.nrows
            /\ chunks[k].col = RecordsBefore(k) \div hdr.nrows

\* C8: a dense matrix written by a dense formatter and read back has every
\* element delivered at its original (row, col)
C8_DenseRoundTrip ==
    (pc = "done" /\ src.kind = "dense") =>
        /\ Len(Delivered) = src.nrows * src.ncols
        /\ \A i \in 1..Len(Delivered) :
              /\ Delivered[i].row \in 0..(src.nrows - 1)
              /\ Delivered[i].col \in 0..(src.ncols - 1)
              /\ Delivered[i].value
                    = DenseElem(Delivered[i].row, Delivered[i].col)

\* C9: triplets written by triplet_formatter and read back into the triplet
\* handler give the same (row, col, value) at the same position; with an
\* empty value range the (row, col) pairs are preserved
C9_TripletRoundTrip ==
    (pc = "done" /\ src.kind = "triplet") =>
        /\ ~oob
        /\ \A k \in 1..Len(chunks) : chunks[k].parse = "done"
        /\ arrays.rows = src.rows
        /\ arrays.cols = src.cols
        /\ arrays.values = IF src.vals = <<>>
                           THEN [i \in 1..Len(src.rows) |-> PatternValue]
                           ELSE src.vals

\* C9 witness: a body of several records with values, parsed as more than one
\* chunk, has been read back
C9_Witness ==
    /\ pc = "done" /\ src.kind = "triplet"
    /\ src.vals /= <<>>
    /\ Cardinality({k \in 1..Len(chunks) : chunks[k].recs /= <<>>}) >= 2
    /\ arrays.values = src.vals
    /\ arrays.rows = src.rows

(***************************************************************************)
(* Chunk producers invoked more than once (SpecWrite)                      *)
(***************************************************************************)

\* C11: a chunk producer is a pure function of its captured inputs: every
\* later invocation of the same producer object returns the text of its
\* first invocation, for every formatter.
C11_ProducerIsPure ==
    \A i \in 1..Len(emitted) :
        \A n \in 1..Len(texts[i]) : texts[i][n] = texts[i][1]

(***************************************************************************)
(* Offsets and line numbers of the chunks (Spec)                           *)
(***************************************************************************)

\* C12: the offset passed to handler.get_chunk_handler for a chunk is the
\* number of records in all earlier chunks; blank lines of earlier chunks do
\* not advance it.
C12_OffsetIsRecordsBefore ==
    \A k \in 1..Len(chunks) :
        Placed(k) => chunks[k].body_line = RecordsBefore(k)

\* C13: chunk_line_start is the 1-based number, within the whole file, of
\* the chunk's first line: header_line_count + 1 for the first chunk, and
\* header_line_count + 1 + the lines of the earlier chunks for a later one.
C13_LineStartOneBased ==
    \A k \in 1..Len(chunks) :
        Placed(k) =>
            chunks[k].chunk_line_start
                = hdr.header_line_count + LinesBefore(k) + 1

\* the records the header declares
DeclaredRecords ==
    IF hdr.format = "array" THEN hdr.nrows * hdr.ncols ELSE hdr.nnz

\* the records of the whole body
BodyRecords == RecordCount(body)

\* C14: when the body holds more records than the header declares, the read
\* does not return normally, no record with ordinal >= the declared count is
\* delivered, and the triplet handler writes at no index >= nnz.
C14_TooManyRecordsIsError ==
    (pc /= "idle" /\ BodyRecords > DeclaredRecords) =>
        /\ result.state /= "returned"
        /\ Len(Delivered) <= DeclaredRecords
        /\ ~oob

\* the output indices a parse task wrote through its chunk handler
RECURSIVE handled_offsets(_, _)
handled_offsets(h, recs) ==
    IF recs = <<>> THEN {}
    ELSE {h.offset}
         \cup handled_offsets(handle(ZeroArrays(0), h, Head(recs)).handler,
                              Tail(recs))

WrittenBy(k) ==
    IF chunks[k].parse \in {"done", "raised"}
    THEN handled_offsets(get_chunk_handler(chunks[k].body_line),
                         chunks[k].recs)
    ELSE {}

\* C20: with triplet_numpy_parse_handler no output index is written by two
\* different parse tasks, in every order in which the workers run them.
C20_DisjointWrites ==
    (hdr.format = "coordinate") =>
        \A j, k \in 1..Len(chunks) :
            j /= k => WrittenBy(j) \cap WrittenBy(k) = {}

\* C20 witness: two parse tasks have each written output indices, the task of
\* the later chunk while the task of an earlier chunk was still unfinished
C20_Witness ==
    /\ hdr.format = "coordinate"
    /\ \E j, k \in 1..Len(chunks) :
          /\ j < k
          /\ chunks[j].parse = "submitted"
          /\ WrittenBy(k) /= {}
    /\ \E j, k \in 1..Len(chunks) :
          /\ j /= k
          /\ WrittenBy(j) /= {} /\ WrittenBy(k) /= {}

(***************************************************************************)
(* Work unit sizes and line formats of the formatters (SpecWrite)          *)
(***************************************************************************)
\* producer i has been returned by next_chunk and not invoked yet, so its
\* cursor still stands at the start of its work unit
Fresh(i) == texts[i] = <<>>

CeilDiv(a, b) == (a + b - 1) \div b

\* min(ceil(chunk_size_values / nnz_per_column), remaining) with
\* nnz_per_column = nnz / ncols, in exact arithmetic, for nnz > 0
csc_columns_per_unit(f, remaining) ==
    Min(CeilDiv(f.chunk_size_values * f.num_columns, f.nnz), remaining)

\* C15: each csc_formatter work unit covers
\* min(ceil(chunk_size_values / nnz_per_column), remaining columns) columns,
\* nnz_per_column being nnz / ncols (a source with entries, so that the
\* quotient is defined).
C15_CscColumnsPerUnit ==
    (fmt.kind = "csc" /\ fmt.nnz > 0) =>
        \A i \in 1..Len(emitted) :
            Fresh(i) =>
                emitted[i].ptr_end - emitted[i].ptr_iter
                    = csc_columns_per_unit(fmt,
                                           fmt.ptr_end - emitted[i].ptr_iter)

\* C16: each dense_2d_call_formatter work unit covers group whole columns
\* with 1 <= group <= remaining columns and
\* nrows * (group - 1) < chunk_size_values.
C16_Dense2dGroupSize ==
    (fmt.kind = "dense2d") =>
        \A i \in 1..Len(emitted) :
            Fresh(i) =>
                LET group == emitted[i].col_end - emitted[i].col_iter
                IN /\ group >= 1
                   /\ group <= fmt.ncols - emitted[i].col_iter
                   /\ fmt.nrows * (group - 1) < fmt.chunk_size_values

\* the 0-based record (triplet) or column (csc) at which work unit i starts:
\* where the unit before it ended
TripletUnitStart(i) == IF i = 1 THEN 0 ELSE emitted[i - 1].row_end
CscUnitStart(i) == IF i = 1 THEN 0 ELSE emitted[i - 1].ptr_end

\* the integers on a line, read back from its tokens
LineInts(line) ==
    LET toks == Tokens(line, 1, <<>>)
    IN [t \in 1..Len(toks) |->
            IF IsIntToken(toks[t]) THEN <<parse_int(toks[t])>> ELSE <<>>]

\* C17: triplet_formatter emits one line per record, 'row+1 col+1 value';
\* without values the line is 'row+1 col+1'; with COLUMN_IS_VALUE the second
\* field is the column entry itself, not incremented.
C17_TripletLineFormat ==
    (fmt.kind = "triplet") =>
        \A i \in 1..Len(emitted) :
            Len(texts[i]) >= 1 =>
                LET first == TripletUnitStart(i)
                    ls == SplitLines(texts[i][1], 1, <<>>)
                IN /\ Len(ls) = emitted[i].row_end - first
                   /\ Last(texts[i][1]) = kNewline
                   /\ \A j \in 1..Len(ls) :
                        LET r == first + j
                            second == IF fmt.column_is_value
                                      THEN fmt.cols[r] ELSE fmt.cols[r] + 1
                        IN /\ ls[j] \o <<kNewline>> = RefTripletLine(fmt, r)
                           /\ LineInts(ls[j])
                                = IF fmt.vals = <<>>
                                  THEN << <<fmt.rows[r] + 1>>, <<second>> >>
                                  ELSE << <<fmt.rows[r] + 1>>, <<second>>,
                                          <<fmt.vals[r]>> >>

\* C17 witness: a later work unit of a formatter with COLUMN_IS_VALUE and
\* values has produced at least two lines
C17_Witness ==
    /\ fmt.kind = "triplet"
    /\ fmt.column_is_value
    /\ fmt.vals /= <<>>
    /\ \E i \in 2..Len(emitted) :
          /\ Len(texts[i]) >= 1
          /\ Len(SplitLines(texts[i][1], 1, <<>>)) >= 2

\* C18: for every column c of a work unit and every k in [p[c], p[c+1]),
\* csc_formatter emits the line 'indices[k]+1 (c+1) values[k]' (the indices
\* swapped under transpose), c counted from the first column of the matrix
\* and values[k] taken at the position of the index; in every work unit.
C18_CscLineFormat ==
    (fmt.kind = "csc") =>
        \A i \in 1..Len(emitted) :
            Len(texts[i]) >= 1 =>
                LET k0 == fmt.ptr[CscUnitStart(i) + 1]
                    k1 == fmt.ptr[emitted[i].ptr_end + 1]
                    ls == SplitLines(texts[i][1], 1, <<>>)
                IN /\ Len(ls) = k1 - k0
                   /\ \A j \in 1..Len(ls) :
                        LET k == k0 + j
                            c == CscColumnOf(fmt, k - 1)
                            idx == IF fmt.transpose
                                   THEN << <<c + 1>>, <<fmt.ind[k] + 1>> >>
                                   ELSE << <<fmt.ind[k] + 1>>, <<c + 1>> >>
                        IN /\ CscUnitStart(i) <= c /\ c < emitted[i].ptr_end
                           /\ ls[j] \o <<kNewline>> = RefCscLine(fmt, k)
                           /\ LineInts(ls[j])
                                = IF fmt.vals = <<>> THEN idx
                                  ELSE idx \o << <<fmt.vals[k]>> >>

\* C18 witness: a work unit that is not the first, starting at a column whose
\* entries are not the first of the matrix, has produced lines with values
C18_Witness ==
    /\ fmt.kind = "csc"
    /\ fmt.vals /= <<>>
    /\ \E i \in 2..Len(emitted) :
          /\ Len(texts[i]) >= 1
          /\ texts[i][1] /= <<>>
          /\ fmt.ptr[CscUnitStart(i) + 1] > 0

(***************************************************************************)
(* The constructors (SpecWrite)                                            *)
(***************************************************************************)
\* C19: the constructor of triplet_formatter throws invalid_argument exactly
\* when the row and column ranges differ in length or the value range is
\* non-empty and differs in length from the row range; that of csc_formatter
\* exactly when the value range is non-empty and differs in length from the
\* index range; an empty value range is accepted.
C19_CtorRejectsMismatchedRanges ==
    /\ (fmt.kind = "invalid_argument" /\ fmt.args.class = "triplet") =>
          \/ Len(fmt.args.rows) /= Len(fmt.args.cols)
          \/ (fmt.args.vals /= <<>>
                /\ Len(fmt.args.vals) /= Len(fmt.args.rows))
    /\ (fmt.kind = "triplet") =>
          /\ Len(fmt.rows) = Len(fmt.cols)
          /\ (fmt.vals = <<>> \/ Len(fmt.vals) = Len(fmt.rows))
    /\ (fmt.kind = "invalid_argument" /\ fmt.args.class = "csc") =>
          (fmt.args.vals /= <<>> /\ Len(fmt.args.vals) /= Len(fmt.args.ind))
    /\ (fmt.kind = "csc") =>
          (fmt.vals = <<>> \/ Len(fmt.vals) = Len(fmt.ind))

\* C19 witness: a constructor of triplet_formatter has thrown for ranges
\* whose rows and columns agree in length and whose values do not
C19_Witness ==
    /\ fmt.kind = "invalid_argument"
    /\ fmt.args.class = "triplet"
    /\ Len(fmt.args.rows) = Len(fmt.args.cols)
    /\ fmt.args.vals /= <<>>

(***************************************************************************)
(* The stream, the parse tasks and the producer's steps (Spec)             *)
(***************************************************************************)
\* the bytes of the chunks read so far, in the order they were read
ChunksText == Flatten([k \in 1..Len(chunks) |-> chunks[k].chunk])

\* C21: the stream is read only by the producer: a step of a worker leaves
\* the stream where it was, every read is a step of the producer that takes
\* the bytes right after the previous chunk, and the chunks read so far are
\* the consumed prefix of the stream in stream order.
C21_StreamReadOnlyByProducer ==
    /\ [](pc /= "idle" => ChunksText = SubSeq(body, 1, spos))
    /\ [][ /\ (WorkerCountLines \/ WorkerParse)
                => UNCHANGED <<spos, sgood, body>>
           /\ (spos' /= spos \/ sgood' /= sgood \/ Len(chunks') /= Len(chunks))
                => /\ pc \in {"seed", "loop"}
                   /\ spos' >= spos
                   /\ Len(chunks') = Len(chunks) + 1
                   /\ chunks'[Len(chunks')].chunk
                        = SubSeq(body, spos + 1, spos') ]_vars

\* C21 witness: a second chunk has been read after a worker finished a task
\* on the first one, with part of the stream still unread
C21_Witness ==
    /\ Len(chunks) >= 2
    /\ chunks[1].chunk_line_count /= -1
    /\ chunks[2].chunk /= <<>>
    /\ 0 < spos /\ spos < Len(body)

\* C22: when read_body_threads has returned, every chunk read from the
\* stream was parsed by exactly one parse task, which has ended; no task is
\* queued or running and no chunk waits in the FIFO.
C22_EveryChunkParsedOnce ==
    (result.state = "returned") =>
        /\ spos = Len(body)
        /\ line_count_futures = <<>>
        /\ tasks = <<>>
        /\ \A k \in 1..Len(chunks) :
              /\ chunks[k].parse \in {"done", "raised"}
              /\ chunks[k].parse_runs = 1

\* C22 witness: the read returned after parsing a body of several chunks
\* that each held records
C22_Witness ==
    /\ result.state = "returned"
    /\ Len(chunks) >= 3
    /\ \A k \in 1..3 : chunks[k].recs /= <<>> /\ chunks[k].parse_runs = 1

\* a worker task has raised
SomeTaskRaised == \E k \in 1..Len(chunks) : chunks[k].parse = "raised"

\* C23: once a worker task has raised, no further chunk is read and no
\* further line-count or parse task is submitted; the outstanding tasks are
\* only drained.
C23_NoNewWorkAfterError ==
    [][ SomeTaskRaised =>
            /\ Len(chunks') = Len(chunks)
            /\ spos' = spos
            /\ Len(tasks') <= Len(tasks) ]_vars

(***************************************************************************)
(* Partitioning and progress of next_chunk (SpecWrite)                     *)
(***************************************************************************)
\* C24: a triplet_formatter work unit holds min(chunk_size_values, remaining
\* records) records, every unit but the last holds chunk_size_values, and
\* the row, column and (when present) value cursors advance by that amount.
C24_TripletUnitSize ==
    (fmt.kind = "triplet") =>
        /\ \A i \in 1..Len(emitted) :
              LET first == TripletUnitStart(i)
                  size == emitted[i].row_end - first
              IN /\ size = Min(fmt.chunk_size_values, Len(fmt.rows) - first)
                 /\ (i < Len(emitted)) => size = fmt.chunk_size_values
                 /\ Fresh(i) =>
                      /\ emitted[i].row_iter = first
                      /\ emitted[i].col_iter = first
                      /\ (fmt.vals /= <<>>) =>
                            /\ emitted[i].val_iter = first
                            /\ emitted[i].val_end = first + size
        /\ fmt.col_iter = fmt.row_iter
        /\ (fmt.vals /= <<>>) => fmt.val_iter = fmt.row_iter
        /\ (Len(emitted) >= 1) => fmt.row_iter = Last(emitted).row_end

\* C24 witness: a drained formatter with values whose last unit is shorter
\* than the full units before it
C24_Witness ==
    /\ fmt.kind = "triplet"
    /\ fmt.vals /= <<>>
    /\ ~triplet_has_next(fmt)
    /\ Len(emitted) >= 2
    /\ emitted[1].row_end = fmt.chunk_size_values
    /\ Last(emitted).row_end - TripletUnitStart(Len(emitted))
            < fmt.chunk_size_values

\* the cursor of a formatter and the end it runs to
Cursor(f) ==
    CASE f.kind = "triplet" -> f.row_iter
      [] f.kind = "csc" -> f.ptr_iter
      [] f.kind = "array" -> f.cur_col
      [] f.kind = "dense2d" -> f.col_iter

CursorEnd(f) ==
    CASE f.kind = "triplet" -> f.row_end
      [] f.kind = "csc" -> f.ptr_end
      [] f.kind = "array" -> f.ncols
      [] f.kind = "dense2d" -> f.ncols

NamedFormatter == fmt.kind \in {"triplet", "csc", "array", "dense2d"}

\* C28: for chunk_size_values >= 1 every next_chunk call made while has_next
\* holds moves the cursor forward and not past the end; a triplet_formatter
\* over n records is drained after exactly ceil(n / chunk_size_values)
\* calls, a csc_formatter, array_formatter or dense_2d_call_formatter after
\* at most ncols calls; over a source with no records (triplet) or no
\* columns (the others) has_next is false from the start.
C28_NextChunkProgress ==
    /\ [](NamedFormatter =>
            /\ Cursor(fmt) <= CursorEnd(fmt)
            /\ Len(emitted) <= CursorEnd(fmt)
            /\ (CursorEnd(fmt) = 0) => (~has_next(fmt) /\ emitted = <<>>)
            /\ (fmt.kind = "triplet") =>
                  /\ Len(emitted)
                        <= CeilDiv(Len(fmt.rows), fmt.chunk_size_values)
                  /\ (~has_next(fmt)) =>
                        Len(emitted)
                            = CeilDiv(Len(fmt.rows), fmt.chunk_size_values)
            /\ (~has_next(fmt)) => Cursor(fmt) = CursorEnd(fmt))
    /\ [][ (NamedFormatter /\ Len(emitted') > Len(emitted)) =>
              /\ has_next(fmt)
              /\ Len(emitted') = Len(emitted) + 1
              /\ Cursor(fmt') > Cursor(fmt)
              /\ Cursor(fmt') <= CursorEnd(fmt) ]_vars

\* C28 witness: a triplet_formatter over more records than one unit holds,
\* not a multiple of chunk_size_values, has been drained
C28_Witness ==
    /\ fmt.kind = "triplet"
    /\ ~has_next(fmt)
    /\ fmt.chunk_size_values >= 2
    /\ Len(fmt.rows) % fmt.chunk_size_values /= 0
    /\ Len(emitted) = CeilDiv(Len(fmt.rows), fmt.chunk_size_values)
    /\ Len(emitted) >= 2

(***************************************************************************)
(* The order of the producer's steps within one pass of its loop (Spec)    *)
(***************************************************************************)
\* the producer reads a chunk inside its loop (not while seeding)
LoopRead == pc = "loop" /\ Len(chunks') = Len(chunks) + 1

\* the chunk the current pass of the loop is about: pass j takes chunk j,
\* and while the stream is good every pass reads one chunk, so at a read
\* inside the loop j - 1 chunks were read by earlier passes
PassChunk == Len(chunks) - seed_i + 1

C26_ReadTerminates ==
    <>(result.state = "returned" /\ line_count_futures = <<>> /\ tasks = <<>>)

\* C26 witness: the read of the long body, which fills the FIFO to its cap
\* and keeps the producer waiting on the test, has returned
C26_Witness ==
    /\ result.state = "returned"
    /\ Len(chunks) > Cap
    /\ \A k \in 1..Len(chunks) : chunks[k].parse = "done"

(***************************************************************************)
(* Contents written through the offset-keyed handler (Spec)                *)
(***************************************************************************)
ParseEnded(k) == chunks[k].parse \in {"done", "raised"}

\* the arrays after the parse tasks that have ended ran one after another in
\* stream order, from chunk k on
RECURSIVE InStreamOrder(_, _)
InStreamOrder(a, k) ==
    IF k > Len(chunks) THEN a
    ELSE InStreamOrder(
             IF ParseEnded(k)
             THEN handle_all(a, get_chunk_handler(LinesBefore(k)),
                             chunks[k].recs).arrays
             ELSE a,
             k + 1)

\* the lines of a chunk that hold a record
RecordLines(chunk) ==
    SelectSeq(SplitLines(chunk, 1, <<>>),
              LAMBDA l : Tokens(l, 1, <<>>) /= <<>>)

\* record rec is what line l of the file says
RecordOfLine(rec, l) ==
    LET ints == LineInts(l)
        n == Len(ints)
    IN /\ n >= 1 /\ \A t \in 1..n : ints[t] /= <<>>
       /\ rec.row = ints[1][1] - 1
       /\ rec.col = IF hdr.object = "matrix" THEN ints[2][1] - 1 ELSE 0
       /\ rec.value = IF hdr.field = "pattern" THEN PatternValue
                      ELSE ints[n][1]

\* C27: with the offset-keyed handler the arrays hold, in every state and
\* under every order in which the workers ran, what the ended parse tasks
\* write when run one after another in stream order; a chunk is parsed by
\* one task, which delivers the chunk's records in file order.  Runs with a
\* write outside the arrays are left out: their contents are undefined.
C27_ContentsIndependentOfInterleaving ==
    (hdr.format = "coordinate" /\ pc /= "idle" /\ ~oob) =>
        /\ arrays = InStreamOrder(ZeroArrays(hdr.nnz), 1)
        /\ \A k \in 1..Len(chunks) :
              ParseEnded(k) =>
                  LET ls == RecordLines(chunks[k].chunk)
                  IN /\ chunks[k].parse_runs = 1
                     /\ Len(chunks[k].recs) <= Len(ls)
                     /\ chunks[k].parse = "done"
                            => Len(chunks[k].recs) = Len(ls)
                     /\ \A i \in 1..Len(chunks[k].recs) :
                            RecordOfLine(chunks[k].recs[i], ls[i])

\* C27 witness: the task of a later chunk has written its records while the
\* task of an earlier chunk that holds records has not run yet
C27_Witness ==
    /\ hdr.format = "coordinate" /\ ~oob
    /\ arrays /= ZeroArrays(hdr.nnz)
    /\ \E j, k \in 1..Len(chunks) :
          /\ j < k
          /\ chunks[j].parse = "submitted"
          /\ RecordLines(chunks[j].chunk) /= <<>>
          /\ chunks[k].parse = "done"
          /\ Len(chunks[k].recs) >= 1

(***************************************************************************)
(* Memory held and value returned by read_body_threads (Spec)              *)
(***************************************************************************)
\* the chunk buffers alive: the entries of the FIFO, each with the chunk of
\* its line_count_result, and the chunks the lambdas of the parse tasks in
\* the pool captured
BuffersAlive ==
    Len(line_count_futures)
        + Cardinality({t \in 1..Len(tasks) : tasks[t].kind = "parse"})

\* C29: at every moment at most 2 * (10 * thread_count) chunk buffers are
\* alive, however many chunks the body has
C29_BuffersBounded ==
    BuffersAlive <= 2 * inflight_count(opts.num_threads)

\* C29 witness: a body of more chunks than the bound has been read to its
\* end, and more than 10 * thread_count buffers were alive at once
C29_Witness ==
    /\ pc \in {"loop", "dispatch"}
    /\ Len(chunks) > 2 * inflight_count(opts.num_threads)
    /\ ~sgood
    /\ BuffersAlive > inflight_count(opts.num_threads)

\* C30: the value returned is header_line_count plus the lines counted over
\* all chunks read, which is header_line_count plus the lines of the body,
\* whatever the chunk size, the number of threads and the order of the tasks
C30_ReturnsLinesRead ==
    (result.state = "returned") =>
        /\ spos = Len(body)
        /\ result.value = hdr.header_line_count
                            + SumSeq([k \in 1..Len(chunks) |->
                                          chunks[k].chunk_line_count])
        /\ result.value = hdr.header_line_count + count_lines(body)

\* C30 witness: a body with a blank line, split into several chunks of
\* different line counts, has been read and its line number returned
C30_Witness ==
    /\ result.state = "returned"
    /\ Len(chunks) >= 2
    /\ \E j, k \in 1..Len(chunks) :
          /\ chunks[j].chunk_line_count >= 2
          /\ chunks[k].chunk_line_count = 1
    /\ count_lines(body) > RecordCount(body)
    /\ result.value = hdr.header_line_count + count_lines(body)

(***************************************************************************)
(* Producers run out of order (SpecWrite)                                  *)
(***************************************************************************)
\* the formatter as constructed: the source it borrows, its cursor at the
\* beginning
Rewound(f) ==
    CASE f.kind = "triplet" ->
            [f EXCEPT !.row_iter = 0, !.col_iter = 0, !.val_iter = 0]
      [] f.kind = "csc" -> [f EXCEPT !.ptr_iter = 0]
      [] f.kind = "array" -> [f EXCEPT !.cur_col = 0]
      [] f.kind = "dense2d" -> [f EXCEPT !.col_iter = 0]

\* the texts of the producers when each one is run as soon as next_chunk
\* returned it
RECURSIVE SequentialTexts(_)
SequentialTexts(f) ==
    IF ~has_next(f) THEN <<>>
    ELSE LET r == next_chunk(f)
         IN <<chunk_call(r.fmt, r.chunk).text>> \o SequentialTexts(r.fmt)

\* C34: the text a producer returns when it is run is the text of its range
\* of the source, whatever producers ran before it and however far next_chunk
\* has moved the formatter on since it was created (text of the first
\* invocation; triplet, csc, array and dense_2d_call formatters)
C34_TextIndependentOfSchedule ==
    (fmt.kind \in {"triplet", "csc", "array", "dense2d"}) =>
        \A i \in 1..Len(emitted) :
            Len(texts[i]) >= 1 =>
                texts[i][1] = SequentialTexts(Rewound(fmt))[i]

\* C34 witness: the formatter has been drained by next_chunk and a later
\* producer has returned its text while an earlier one has not run yet
C34_Witness ==
    /\ fmt.kind \in {"triplet", "csc", "array", "dense2d"}
    /\ ~has_next(fmt)
    /\ \E i, j \in 1..Len(emitted) :
          /\ i < j
          /\ texts[i] = <<>>
          /\ Len(texts[j]) >= 1 /\ texts[j][1] /= <<>>

(***************************************************************************)
(* What a csc_formatter chunk dereferences (SpecWrite)                     *)
(***************************************************************************)
\* work unit i as next_chunk created it
CscUnit(i) == [ptr_iter |-> CscUnitStart(i), ptr_end |-> emitted[i].ptr_end]

\* C35: a csc_formatter chunk over the columns [first, last] dereferences
\* the pointer entries p[c], p[c+1] of its columns only, none beyond index
\* ncols of the ncols + 1 entries, and index and value positions in
\* [p[first], p[last+1]) only; each work unit begins at the column where the
\* one before it ended, the first at column 0, and holds at least one column
C35_CscChunkReadsOwnRange ==
    (fmt.kind = "csc") =>
        \A i \in 1..Len(emitted) :
            LET u == CscUnit(i)
                reads == csc_chunk_reads(fmt, u)
                own == fmt.ptr[u.ptr_iter + 1]..(fmt.ptr[u.ptr_end + 1] - 1)
            IN /\ Fresh(i) => emitted[i].ptr_iter = u.ptr_iter
               /\ u.ptr_iter < u.ptr_end /\ u.ptr_end <= fmt.ptr_end
               /\ reads.ptr = UNION {{c, c + 1} : c \in u.ptr_iter..(u.ptr_end - 1)}
               /\ \A q \in reads.ptr : q <= fmt.num_columns /\ q < Len(fmt.ptr)
               /\ reads.ind \subseteq own
               /\ reads.val \subseteq own
               /\ \A k \in reads.ind \cup reads.val : k < Len(fmt.ind)
               /\ Len(texts[i]) >= 1 =>
                      Len(SplitLines(texts[i][1], 1, <<>>))
                          = Cardinality(reads.ind)

\* C35 witness: three work units of a source with values; the second has run
\* and read entries that are not the first of the matrix, the third has been
\* created and has not run
C35_Witness ==
    /\ fmt.kind = "csc" /\ fmt.vals /= <<>>
    /\ Len(emitted) >= 3
    /\ Len(texts[2]) >= 1 /\ texts[2][1] /= <<>>
    /\ csc_chunk_reads(fmt, CscUnit(2)).val /= {}
    /\ 0 \notin csc_chunk_reads(fmt, CscUnit(2)).ind
    /\ texts[3] = <<>>

(***************************************************************************)
(* Claims about the Python bindings, checked under SpecBind                *)
(***************************************************************************)
\* the dimension a pointer array compresses: the columns of CSC input, the
\* rows of CSR input
CompressedDim(shape, is_csr) == IF is_csr THEN shape[1] ELSE shape[2]

IndptrRejected ==
    /\ call.state = "invalid_argument"
    /\ call.what = "indptr length does not match matrix shape."

\* C31: write_csc turns indptr down exactly when its length is not
\* ncols + 1 for CSC input and not nrows + 1 for CSR input, whatever the
\* shape
C31_IndptrAgainstCompressedDim ==
    (call.fn = "write_csc" /\ call.state /= "pending") =>
        (IndptrRejected
            <=> Len(call.indptr)
                    /= CompressedDim(call.shape, call.is_csr) + 1)

\* C32: when write_triplet, write_csc or write_array has thrown
\* invalid_argument, the stream holds nothing and cursor.header is the
\* header the cursor was opened with
C32_RejectionLeavesCursorUntouched ==
    (call.fn \in {"write_triplet", "write_csc", "write_array"}
        /\ call.state = "invalid_argument") =>
        /\ out = <<>>
        /\ hdr = OpenHeader

\* C32 witness: write_csc has thrown at its second test, for a data array
\* that is neither empty nor as long as indices, with a shape that differs
\* from the one in the cursor's header
C32_Witness ==
    /\ call.fn = "write_csc"
    /\ call.state = "invalid_argument"
    /\ call.what = "len(indices) must equal len(data)."
    /\ Len(call.indices) >= 1
    /\ call.shape[1] /= OpenHeader.nrows

\* C33: read_body_triplet throws invalid_argument exactly when one of the
\* three arrays does not have header.nnz elements, and then the stream has
\* not been read and the arrays are as the caller passed them; otherwise
\* read_body_threads is entered and the body is read to its end
C33_ReadBodyTripletChecksSizes ==
    (call.fn = "read_body_triplet" /\ call.state /= "pending") =>
        LET sizes_equal == /\ call.row_size = hdr.nnz
                           /\ call.col_size = hdr.nnz
                           /\ call.data_size = hdr.nnz
        IN /\ (call.state = "invalid_argument") <=> ~sizes_equal
           /\ (call.state = "invalid_argument") =>
                 /\ spos = 0 /\ sgood
                 /\ chunks = <<>> /\ tasks = <<>>
                 /\ pc = "bind"
                 /\ arrays = CallerArrays(call.row_size, call.col_size,
                                          call.data_size)
           /\ sizes_equal => pc /= "bind"
           /\ (call.state = "returned") => spos = Len(body)

\* C33 witness: read_body_triplet has thrown for a data array of the wrong
\* size next to row and col arrays of nnz elements, on a file with records
C33_Witness ==
    /\ call.fn = "read_body_triplet"
    /\ call.state = "invalid_argument"
    /\ hdr.nnz >= 1 /\ body /= <<>>
    /\ call.row_size = hdr.nnz /\ call.col_size = hdr.nnz
    /\ call.data_size /= hdr.nnz

====
